---- MODULE Spec2Model ----
(***************************************************************************)
(* Model of BoardieDB (js/db.js): the local post/tag store with its two    *)
(* backends (IndexedDB and the localStorage fallback document), the queue  *)
(* of operations issued before the store is ready, and the Supabase sync   *)
(* cycle.  JavaScript's run-to-completion scheduling is modelled           *)
(* explicitly: every action is one task or one microtask; a continuation   *)
(* after an await of an already settled promise is an entry of the FIFO    *)
(* microtask queue, and no new task starts while that queue is non-empty.  *)
(***************************************************************************)
EXTENDS Integers, Sequences, FiniteSets, TLC

(***************************************************************************)
(* Bounds of the model.                                                    *)
(***************************************************************************)
MaxClock == 3
MaxCalls == 1
MaxPending == 3
MaxOtherWrites == 1
MaxCycles == 1
MaxPosts == 3
MaxInits == 2
MaxDated == 2
MaxPage == 2
MaxOverlap == 2
MaxConcurrent == 2
MaxTagString == 3
MaxLoads == 3

(***************************************************************************)
(* Value domains.                                                          *)
(***************************************************************************)
Ids == {1, 2}
Urls == {"u1", "u2"}
TagLists == {<<>>, <<"a">>, <<"b">>, <<"a", "b">>}
NoId == 0
NoTime == 0
NoUser == 0
TheUser == 1
GenBase == 10

\* valid: the stored text is a document JSON.parse accepts
NoDoc ==
  [posts |-> <<>>, tags |-> <<>>, settings |-> 0, present |-> FALSE,
   valid |-> TRUE]
EmptyDoc ==
  [posts |-> <<>>, tags |-> <<>>, settings |-> 0, present |-> TRUE,
   valid |-> TRUE]

Null == [tags |-> <<>>, id |-> NoId, url |-> "", dateAdded |-> NoTime,
         updatedAt |-> NoTime, user_id |-> NoUser]

MkPost(id, url, tags) ==
  [tags |-> tags, id |-> id, url |-> url, dateAdded |-> NoTime,
   updatedAt |-> NoTime, user_id |-> NoUser]

NoEntry == [action |-> "none", data |-> Null]

(***************************************************************************)
(* Array helpers (Array.prototype.findIndex / includes / filter / splice). *)
(***************************************************************************)
Min(S) == CHOOSE x \in S : \A y \in S : x <= y

IdIndex(posts, id) ==
  LET H == {i \in 1..Len(posts) : posts[i].id = id}
  IN  IF H = {} THEN 0 ELSE Min(H)

UrlIndex(posts, url) ==
  LET H == {i \in 1..Len(posts) : posts[i].url = url}
  IN  IF H = {} THEN 0 ELSE Min(H)

TagIndex(tags, name) ==
  LET H == {i \in 1..Len(tags) : tags[i].name = name}
  IN  IF H = {} THEN 0 ELSE Min(H)

Includes(list, x) == \E i \in 1..Len(list) : list[i] = x

RemoveAt(s, i) == SubSeq(s, 1, i - 1) \o SubSeq(s, i + 1, Len(s))

Without(a, b) == SelectSeq(a, LAMBDA x : ~Includes(b, x))

(***************************************************************************)
(* Tag bookkeeping of the fallback backend: one findIndex and one in-place *)
(* change per listed tag, in list order.                                   *)
(***************************************************************************)
IncTag(tags, name) ==
  LET i == TagIndex(tags, name)
  IN  IF i > 0 THEN [tags EXCEPT ![i].count = @ + 1]
      ELSE Append(tags, [name |-> name, count |-> 1])

DecTagKeepZero(tags, name) ==
  LET i == TagIndex(tags, name)
  IN  IF i = 0 THEN tags
      ELSE [tags EXCEPT ![i].count = IF @ > 0 THEN @ - 1 ELSE 0]

DecTag(tags, name) ==
  LET i == TagIndex(tags, name)
      c == IF i = 0 THEN 0
           ELSE IF tags[i].count - 1 > 0 THEN tags[i].count - 1 ELSE 0
  IN  IF i = 0 THEN tags
      ELSE IF c = 0 THEN RemoveAt(tags, i)
      ELSE [tags EXCEPT ![i].count = c]

RECURSIVE IncAll(_, _)
IncAll(tags, list) ==
  IF list = <<>> THEN tags ELSE IncAll(IncTag(tags, Head(list)), Tail(list))

RECURSIVE DecAll(_, _)
DecAll(tags, list) ==
  IF list = <<>> THEN tags ELSE DecAll(DecTag(tags, Head(list)), Tail(list))

(***************************************************************************)
(* Tag bookkeeping of the IndexedDB backend.  All tagsStore.get requests   *)
(* of one handler are placed before any of their onsuccess callbacks runs, *)
(* so every callback computes its new record from the counts the           *)
(* transaction started with; the puts and deletes then apply in order.     *)
(***************************************************************************)
CountOf(tags, name) ==
  LET i == TagIndex(tags, name) IN IF i = 0 THEN 0 ELSE tags[i].count

PutTag(tags, name, count) ==
  LET i == TagIndex(tags, name)
  IN  IF i > 0 THEN [tags EXCEPT ![i].count = count]
      ELSE Append(tags, [name |-> name, count |-> count])

DeleteTag(tags, name) ==
  LET i == TagIndex(tags, name) IN IF i = 0 THEN tags ELSE RemoveAt(tags, i)

RECURSIVE IdbIncAll(_, _, _)
IdbIncAll(tags, snap, list) ==
  IF list = <<>> THEN tags
  ELSE IdbIncAll(PutTag(tags, Head(list), CountOf(snap, Head(list)) + 1),
                 snap, Tail(list))

RECURSIVE IdbDecAll(_, _, _)
IdbDecAll(tags, snap, list) ==
  IF list = <<>> THEN tags
  ELSE LET t == Head(list)
           c == IF CountOf(snap, t) - 1 > 0 THEN CountOf(snap, t) - 1 ELSE 0
       IN  IF TagIndex(snap, t) = 0 THEN IdbDecAll(tags, snap, Tail(list))
           ELSE IF c = 0 THEN IdbDecAll(DeleteTag(tags, t), snap, Tail(list))
           ELSE IdbDecAll(PutTag(tags, t, c), snap, Tail(list))

(***************************************************************************)
(* posts.sort of getAllPosts() called without options: the comparator is   *)
(* (dateAdded(a) - dateAdded(b)) * -1, the sort is stable.                 *)
(***************************************************************************)
RECURSIVE InsertDesc(_, _)
InsertDesc(sorted, p) ==
  IF sorted = <<>> THEN <<p>>
  ELSE IF Head(sorted).dateAdded >= p.dateAdded
       THEN <<Head(sorted)>> \o InsertDesc(Tail(sorted), p)
       ELSE <<p>> \o sorted

RECURSIVE SortDesc(_)
SortDesc(posts) ==
  IF posts = <<>> THEN <<>>
  ELSE InsertDesc(SortDesc(SubSeq(posts, 1, Len(posts) - 1)), posts[Len(posts)])

(***************************************************************************)
(* State.                                                                  *)
(***************************************************************************)
VARIABLES
  config,               \* CONFIG.supabase.url && CONFIG.supabase.anonKey
  isIndexedDBSupported, \* this.isIndexedDBSupported
  isInitialized,        \* this.isInitialized
  initPc,               \* position of each invocation of init()
  pendingOperations,    \* this.pendingOperations (indices into calls)
  supabaseClient,       \* this.supabaseClient is set
  currentUser,          \* this.currentUser (NoUser when null/undefined)
  isOnline,             \* this.isOnline
  syncQueue,            \* this.syncQueue
  localStorage,         \* the fallback document under CONFIG.storage.fallbackKey
  idb,                  \* the posts and tags object stores of this.db
  remote,               \* the rows of the remote 'posts' table
  clock,                \* the value new Date() returns
  microtasks,           \* FIFO queue of continuations of settled awaits
  idbTxns,              \* IndexedDB transactions created and not yet run
  cycles,               \* the running invocations of syncWithSupabase
  calls,                \* the calls made by the application, with their futures
  pushed,               \* entries pushed on syncQueue by the latest step
  finished,             \* the sync cycle that returned in the latest step
  settled,              \* the callers whose promise settled in the latest step
  otherWrites,          \* number of writes other devices made to the remote table
  userTask,             \* the running task is application code
  session,              \* the user signed in with the auth provider (NoUser: none)
  ui                    \* the fields of the PostManager / UIManager instance

vars == <<config, isIndexedDBSupported, isInitialized, initPc,
          pendingOperations, supabaseClient, currentUser, isOnline, syncQueue,
          localStorage, idb, remote, clock, microtasks, idbTxns, cycles,
          calls, pushed, finished, settled, otherWrites, userTask, session, ui>>

GenIds == {GenBase + 1, GenBase + 2, GenBase + 3}

IdleCycle ==
  [i |-> 0, pc |-> "idle", cur |-> NoEntry, remotePosts |-> <<>>,
   localPosts |-> <<>>, ares |-> "", failed |-> FALSE, trigger |-> "",
   ins |-> <<>>, base |-> 0]

NoTask ==
  [k |-> "none", caller |-> 0, post |-> Null, sync |-> FALSE,
   existing |-> Null, add |-> <<>>, rem |-> <<>>, cont |-> ""]

\* the component that lists the posts, before one is constructed
\*   awaiting:   a loadPosts() is suspended at its await of getAllPosts
\*   resetSince: resetAndReload() has run since that query was issued
\*   stale:      the container holds posts of a query issued before the
\*               latest resetAndReload()
\*   fresh:      the queries issued after the latest resetAndReload() (or the
\*               construction) that have completed
\*   outcome:    how the latest loadPosts() left its guard
NoUi ==
  [cls |-> "", isLoading |-> FALSE, hasMorePosts |-> TRUE, currentPage |-> 0,
   currentSearchTerm |-> <<>>, postsContainer |-> <<>>, timers |-> 0,
   awaiting |-> FALSE, resetSince |-> FALSE, stale |-> FALSE, fresh |-> 0,
   outcome |-> "none"]

\* the sync cycles that may be running at once
Slots == DOMAIN cycles

Invocations == 1..MaxInits

(***************************************************************************)
(* The part of the state the store's methods write, as one record, so that *)
(* a handler that runs several methods (processPendingOperations, the sync *)
(* cycle calling addPost) is the composition of their effects.             *)
(***************************************************************************)
Cur ==
  [ls |-> localStorage, idb |-> idb, q |-> syncQueue, mt |-> microtasks,
   tx |-> idbTxns, cyc |-> cycles, calls |-> calls,
   pend |-> pendingOperations, pushed |-> <<>>, fin |-> IdleCycle,
   settled |-> <<>>, ok |-> TRUE]

\* the fields of the store the methods read, as the running handler sees them
Env(ready, idbMode, user, client, online) ==
  [ready |-> ready, idbMode |-> idbMode, user |-> user, client |-> client,
   online |-> online, now |-> clock]

CurEnv ==
  Env(isInitialized, isIndexedDBSupported, currentUser, supabaseClient, isOnline)

SeqIds(posts) == {posts[i].id : i \in 1..Len(posts)}

\* the id of an argument, NoId for an argument that is not a post
IdOf(x) == IF "id" \in DOMAIN x THEN x.id ELSE NoId

UsedIds(S) ==
  SeqIds(S.ls.posts) \cup SeqIds(S.idb.posts) \cup SeqIds(remote)
  \cup {S.q[i].data.id : i \in 1..Len(S.q)}
  \cup {S.mt[i].post.id : i \in 1..Len(S.mt)}
  \cup {IdOf(S.tx[i].post) : i \in 1..Len(S.tx)}
  \cup {IdOf(S.calls[i].post) : i \in 1..Len(S.calls)}
  \cup UNION {SeqIds(S.cyc[c].remotePosts) \cup SeqIds(S.cyc[c].localPosts)
              \cup {S.cyc[c].cur.data.id} : c \in Slots}

\* crypto.randomUUID(): an identifier that occurs nowhere in the system
RandomUUID(S) ==
  IF GenIds \subseteq UsedIds(S) THEN NoId ELSE Min(GenIds \ UsedIds(S))

(***************************************************************************)
(* Settling the promise an operation returned.  A positive caller is a     *)
(* call of the application; a negative caller is the sync cycle in slot    *)
(* -caller, whose await continues in a later microtask.                    *)
(***************************************************************************)
\* the promise the caller holds: that of the method itself, or for a
\* deferred call the promise whose resolve is passed to then()
Outer(deferred, status) ==
  IF deferred /\ status = "rejected" THEN "pending" ELSE status

CycleTask(c) == [NoTask EXCEPT !.k = "cycle", !.caller = 0 - c]

Settle(S, caller, status, res, ret) ==
  IF caller > 0
  THEN [S EXCEPT !.settled = Append(@, caller),
                 !.calls[caller].status = status,
                 !.calls[caller].outer = Outer(S.calls[caller].deferred, status),
                 !.calls[caller].res = res,
                 !.calls[caller].ret = IF S.calls[caller].keep THEN ret ELSE Null,
                 !.calls[caller].post = IF S.calls[caller].keep THEN @ ELSE Null]
  ELSE [S EXCEPT !.settled = Append(@, caller),
                 !.cyc[0 - caller].ares = status,
                 !.mt = Append(@, CycleTask(0 - caller))]

(***************************************************************************)
(* syncWithSupabase: the drain loop up to its next await.                  *)
(***************************************************************************)
DrainStepKeeps(S, c) ==
  IF S.q # <<>>
  THEN [S EXCEPT !.cyc[c].pc = "drainWait", !.cyc[c].cur = Head(S.q)]
  ELSE [S EXCEPT !.cyc[c].pc = "selectWait", !.cyc[c].cur = NoEntry]

DrainStep(S, c) ==
  IF S.q # <<>>
  THEN [S EXCEPT !.q = Tail(@), !.cyc[c].pc = "drainWait",
                 !.cyc[c].cur = Head(S.q)]
  ELSE [S EXCEPT !.cyc[c].pc = "selectWait", !.cyc[c].cur = NoEntry]

FreeSlots(S) == {c \in Slots : S.cyc[c].pc = "idle"}

SyncStart(S, env, trigger) ==
  IF ~env.client \/ env.user = NoUser THEN S
  ELSE IF FreeSlots(S) = {} THEN [S EXCEPT !.ok = FALSE]
  ELSE LET c == Min(FreeSlots(S))
           done == {i \in 1..Len(S.calls) : S.calls[i].status # "pending"}
       IN  DrainStep([S EXCEPT !.cyc[c] = [IdleCycle EXCEPT
                                            !.trigger = trigger,
                                            !.base = Cardinality(done)]], c)

\* if (sync && this.isOnline && this.currentUser) { push; syncWithSupabase() }
ShouldQueue(sync, env) == sync /\ env.online /\ env.user # NoUser

QueueForSyncAlways(S, sync, env, action, data) ==
  SyncStart([S EXCEPT !.q = Append(@, [action |-> action, data |-> data]),
                      !.pushed = Append(@, [action |-> action, data |-> data])],
            env, "mutation")

QueueForSyncStored(S, sync, env, action, data) ==
  IF ShouldQueue(sync, env)
  THEN LET i == IdIndex(S.ls.posts, data.id)
           j == IdIndex(S.idb.posts, data.id)
           S1 == IF i > 0 THEN [S EXCEPT !.ls.posts[i] = data] ELSE S
           S2 == IF j > 0 THEN [S1 EXCEPT !.idb.posts[j] = data] ELSE S1
       IN  SyncStart([S2 EXCEPT !.q = Append(@, [action |-> action, data |-> data]),
                                !.pushed = Append(@, [action |-> action, data |-> data])],
                     env, "mutation")
  ELSE S

QueueForSync(S, sync, env, action, data) ==
  IF ShouldQueue(sync, env)
  THEN SyncStart([S EXCEPT !.q = Append(@, [action |-> action, data |-> data]),
                           !.pushed = Append(@, [action |-> action, data |-> data])],
                 env, "mutation")
  ELSE S

WithUserKept(post, env) == post

WithUser(post, env) == [post EXCEPT !.user_id = env.user]

DeleteData(id, env) == [Null EXCEPT !.id = id, !.user_id = env.user]

(***************************************************************************)
(* addPost once the store is ready.  The fallback branch runs to its end   *)
(* within the call; the IndexedDB branch creates a readwrite transaction.  *)
(***************************************************************************)
Stamp(S, post, env) ==
  [post EXCEPT !.id = IF @ = NoId THEN RandomUUID(S) ELSE @,
               !.dateAdded = IF @ = NoTime THEN env.now ELSE @,
               !.updatedAt = env.now]

NoteArg(S, caller, post) ==
  IF caller > 0 THEN [S EXCEPT !.calls[caller].post = post] ELSE S

LsAddPostNoUrlCheck(S, caller, post, sync, env) ==
  Settle(QueueForSync([S EXCEPT !.ls.posts = Append(@, post),
                                !.ls.tags = IncAll(@, post.tags)],
                      sync, env, "add", WithUser(post, env)),
         caller, "resolved", "post", post)

LsAddPost(S, caller, post, sync, env) ==
  IF ~S.ls.valid
  THEN Settle(S, caller, "rejected", "SyntaxError", Null)
  ELSE IF UrlIndex(S.ls.posts, post.url) > 0
  THEN Settle(S, caller, "rejected", "DuplicateURL", Null)
  ELSE Settle(QueueForSync([S EXCEPT !.ls.posts = Append(@, post),
                                     !.ls.tags = IncAll(@, post.tags)],
                           sync, env, "add", WithUser(post, env)),
              caller, "resolved", "post", post)

ExecAddPost(S, caller, post0, sync, env) ==
  LET post == Stamp(S, post0, env)
      stored == IF env.idbMode THEN S.idb.posts ELSE S.ls.posts
      S1 == [NoteArg(S, caller, post) EXCEPT
               !.ok = @ /\ post.id # NoId /\ Len(stored) + Len(S.tx) < MaxPosts]
  IN  IF env.idbMode
      THEN [S1 EXCEPT !.tx = Append(@, [NoTask EXCEPT !.k = "add",
                                          !.caller = caller, !.post = post,
                                          !.sync = sync])]
      ELSE LsAddPost(S1, caller, post, sync, env)

(***************************************************************************)
(* getPostById once the store is ready.                                    *)
(***************************************************************************)
LsGetPostById(S, id) ==
  LET i == IdIndex(S.ls.posts, id)
  IN  IF ~S.ls.valid \/ i = 0 THEN Null ELSE S.ls.posts[i]

\* the lookup a method awaits before it goes on as continuation cont
AwaitGetPostById(S, caller, post, sync, cont, env) ==
  IF env.idbMode
  THEN [S EXCEPT !.tx = Append(@, [NoTask EXCEPT !.k = "get",
                                     !.caller = caller, !.post = post,
                                     !.sync = sync, !.cont = cont])]
  ELSE [S EXCEPT !.mt = Append(@, [NoTask EXCEPT !.k = cont,
                                     !.caller = caller, !.post = post,
                                     !.sync = sync,
                                     !.existing = LsGetPostById(S, post.id)])]

ExecGetPostById(S, caller, id, env) ==
  IF env.idbMode
  THEN [S EXCEPT !.tx = Append(@, [NoTask EXCEPT !.k = "get",
                                     !.caller = caller,
                                     !.post = [Null EXCEPT !.id = id],
                                     !.cont = "getById"])]
  ELSE LET r == LsGetPostById(S, id)
       IN  Settle(S, caller, "resolved", IF r = Null THEN "null" ELSE "post", r)

(***************************************************************************)
(* updatePost: up to the await of getPostById, and from there on.          *)
(***************************************************************************)
ExecUpdatePost(S, caller, post0, sync, env) ==
  LET post == [post0 EXCEPT !.updatedAt = env.now]
  IN  AwaitGetPostById(NoteArg(S, caller, post), caller, post, sync,
                       "update2", env)

LsUpdate(S, t, env) ==
  LET index == IdIndex(S.ls.posts, t.post.id)
      tagsToAdd == Without(t.post.tags, t.existing.tags)
      tagsToRemove == Without(t.existing.tags, t.post.tags)
  IN  IF index = 0
      THEN Settle(S, t.caller, "rejected", "NotFound", Null)
      ELSE Settle(QueueForSync(
                    [S EXCEPT !.ls.posts[index] = t.post,
                              !.ls.tags = DecAll(IncAll(@, tagsToAdd), tagsToRemove)],
                    t.sync, env, "update", WithUser(t.post, env)),
                  t.caller, "resolved", "post", t.post)

UpdatePost2Upsert(S, t, env) ==
  IF env.idbMode
  THEN [S EXCEPT !.tx = Append(@, [t EXCEPT !.k = "put",
                              !.add = Without(t.post.tags, t.existing.tags),
                              !.rem = Without(t.existing.tags, t.post.tags)])]
  ELSE LsUpdate(S, [t EXCEPT !.existing = IF @ = Null THEN t.post ELSE @], env)

UpdatePost2(S, t, env) ==
  IF t.existing = Null
  THEN Settle(S, t.caller, "rejected", "NotFound", Null)
  ELSE IF env.idbMode
  THEN [S EXCEPT !.tx = Append(@, [t EXCEPT !.k = "put",
                              !.add = Without(t.post.tags, t.existing.tags),
                              !.rem = Without(t.existing.tags, t.post.tags)])]
  ELSE LsUpdate(S, t, env)

(***************************************************************************)
(* deletePost: up to the await of getPostById, and from there on.  Every   *)
(* exception of the body is caught and turned into the result false.       *)
(***************************************************************************)
ExecDeletePost(S, caller, id, sync, env) ==
  AwaitGetPostById(S, caller, [Null EXCEPT !.id = id], sync, "delete2", env)

LsDelete(S, t, env) ==
  LET index == IdIndex(S.ls.posts, t.post.id)
  IN  IF index = 0
      THEN Settle(S, t.caller, "resolved", "false", Null)
      ELSE Settle(QueueForSync(
                    [S EXCEPT !.ls.posts = RemoveAt(@, index),
                              !.ls.tags = DecAll(@, t.existing.tags)],
                    t.sync, env, "delete", DeleteData(t.post.id, env)),
                  t.caller, "resolved", "true", Null)

DeletePost2(S, t, env) ==
  IF t.existing = Null
  THEN Settle(S, t.caller, "resolved", "false", Null)
  ELSE IF env.idbMode
  THEN [S EXCEPT !.tx = Append(@, [t EXCEPT !.k = "del",
                                            !.rem = t.existing.tags])]
  ELSE LsDelete(S, t, env)

(***************************************************************************)
(* setSetting for the one key the application stores (its theme).          *)
(***************************************************************************)
ExecSetSetting(S, caller, value, env) ==
  IF env.idbMode
  THEN [S EXCEPT !.tx = Append(@, [NoTask EXCEPT !.k = "setting",
                                     !.caller = caller,
                                     !.post = [Null EXCEPT !.id = value]])]
  ELSE IF ~S.ls.valid
  THEN Settle(S, caller, "resolved", "false", Null)
  ELSE Settle([S EXCEPT !.ls.settings = value], caller, "resolved", "true", Null)

(***************************************************************************)
(* getAllTags and getSetting once the store is ready.  The value a call    *)
(* resolves with is kept in the ret field of the call.                     *)
(***************************************************************************)
ExecGetAllTags(S, caller, env) ==
  IF env.idbMode
  THEN [S EXCEPT !.tx = Append(@, [NoTask EXCEPT !.k = "getTags",
                                     !.caller = caller])]
  ELSE IF ~S.ls.valid
  THEN Settle(S, caller, "resolved", "empty", <<>>)
  ELSE Settle(S, caller, "resolved", "tags", S.ls.tags)

\* request.result ? request.result.value : defaultValue
SettingOr(settings, defaultValue) ==
  IF settings = 0 THEN defaultValue ELSE settings

ExecGetSetting(S, caller, defaultValue, env) ==
  IF env.idbMode
  THEN [S EXCEPT !.tx = Append(@, [NoTask EXCEPT !.k = "getSetting",
                                     !.caller = caller,
                                     !.post = [Null EXCEPT !.id = defaultValue]])]
  ELSE IF ~S.ls.valid
  THEN Settle(S, caller, "resolved", "default", defaultValue)
  ELSE Settle(S, caller, "resolved", "value",
              SettingOr(S.ls.settings, defaultValue))

(***************************************************************************)
(* getAllPosts(options): filters, sort and pagination.  Text fields the    *)
(* search reads are sequences of characters; a field a post does not have  *)
(* is a field outside the domain of the record; Absent is an option the    *)
(* caller did not give.                                                    *)
(***************************************************************************)
Absent == 0 - 1

NoOptions ==
  [limit |-> Absent, offset |-> Absent, sortBy |-> "", sortOrder |-> "",
   filterTags |-> <<>>, searchTerm |-> <<>>, platform |-> ""]

Has(p, f) == f \in DOMAIN p

LowerChar(c) ==
  CASE c = "A" -> "a"
    [] c = "B" -> "b"
    [] OTHER -> c

ToLowerCase(str) == [i \in 1..Len(str) |-> LowerChar(str[i])]

StrIncludes(str, term) ==
  \E k \in 0..(Len(str) - Len(term)) : SubSeq(str, k + 1, k + Len(term)) = term

MatchesTags(p, filterTags) ==
  \A k \in 1..Len(filterTags) :
    Has(p, "tags") /\ Includes(p.tags, filterTags[k])

MatchesSearch(p, searchTerm) ==
  LET term == ToLowerCase(searchTerm)
  IN  \/ StrIncludes(ToLowerCase(p.url), term)
      \/ Has(p, "title") /\ p.title # <<>>
           /\ StrIncludes(ToLowerCase(p.title), term)
      \/ Has(p, "description") /\ p.description # <<>>
           /\ StrIncludes(ToLowerCase(p.description), term)
      \/ Has(p, "tags")
           /\ \E k \in 1..Len(p.tags) : StrIncludes(ToLowerCase(p.tags[k]), term)

ApplyFilters(posts, o) ==
  LET byTags == IF o.filterTags # <<>>
                THEN SelectSeq(posts, LAMBDA p : MatchesTags(p, o.filterTags))
                ELSE posts
      byPlatform == IF o.platform # ""
                    THEN SelectSeq(byTags, LAMBDA p : Has(p, "platform")
                                                      /\ p.platform = o.platform)
                    ELSE byTags
  IN  IF o.searchTerm # <<>>
      THEN SelectSeq(byPlatform, LAMBDA p : MatchesSearch(p, o.searchTerm))
      ELSE byPlatform

\* String.prototype.localeCompare on the platform names
PlatformRank ==
  [twitter |-> 1, website |-> 2, youtube |-> 3]

LocaleCompare(a, b) == PlatformRank[a] - PlatformRank[b]

\* the comparator handed to Array.prototype.sort
Comparator(a, b, o) ==
  LET dir == IF o.sortOrder = "asc" THEN 1 ELSE 0 - 1
  IN  IF o.sortBy = "platform"
      THEN LocaleCompare(a.platform, b.platform) * dir
      ELSE (a.dateAdded - b.dateAdded) * dir

\* Array.prototype.sort is stable
RECURSIVE InsertWith(_, _, _)
InsertWith(sorted, p, o) ==
  IF sorted = <<>> THEN <<p>>
  ELSE IF Comparator(Head(sorted), p, o) <= 0
       THEN <<Head(sorted)>> \o InsertWith(Tail(sorted), p, o)
       ELSE <<p>> \o sorted

RECURSIVE SortWith(_, _)
SortWith(posts, o) ==
  IF posts = <<>> THEN <<>>
  ELSE InsertWith(SortWith(SubSeq(posts, 1, Len(posts) - 1), o),
                  posts[Len(posts)], o)

\* a.platform.localeCompare throws when a compared post has no platform
SortThrows(posts, o) ==
  /\ o.sortBy = "platform"
  /\ Len(posts) >= 2
  /\ \E k \in 1..Len(posts) : ~Has(posts[k], "platform")

\* if (limit) { const start = offset || 0; posts.slice(start, start + limit) }
Paginate(posts, o) ==
  IF o.limit # Absent /\ o.limit # 0
  THEN LET start == IF o.offset = Absent THEN 0 ELSE o.offset
       IN  SubSeq(posts, start + 1, Min({start + o.limit, Len(posts)}))
  ELSE posts

Pipeline(posts, o) == Paginate(SortWith(ApplyFilters(posts, o), o), o)

LsQuery(S, o) ==
  IF ~S.ls.valid \/ SortThrows(ApplyFilters(S.ls.posts, o), o)
  THEN <<>>
  ELSE Pipeline(S.ls.posts, o)

\* store.index(sortBy === 'platform' ? 'platform' : 'dateAdded').getAll():
\* the records that have the key of the index, by key and then by id
IndexGetAll(posts, o) ==
  LET key == IF o.sortBy = "platform" THEN "platform" ELSE "dateAdded"
      asc == [o EXCEPT !.sortOrder = "asc"]
  IN  SortWith(SelectSeq(posts, LAMBDA p : Has(p, key)
                                           /\ (key = "dateAdded" => p.dateAdded # NoTime)),
               asc)

IdbQuery(S, o) == Pipeline(IndexGetAll(S.idb.posts, o), o)

ExecQuery(S, caller, o, env) ==
  IF env.idbMode
  THEN [S EXCEPT !.tx = Append(@, [NoTask EXCEPT !.k = "query",
                                     !.caller = caller, !.post = o])]
  ELSE LET r == LsQuery(S, o)
       IN  Settle(S, caller, "resolved", "posts", r)

(***************************************************************************)
(* getAllPosts() without options, as the sync cycle calls it.              *)
(***************************************************************************)
LsGetAllPosts(S) == IF S.ls.valid THEN SortDesc(S.ls.posts) ELSE <<>>

\* the 'dateAdded' index lists the records that have the key, by key and id
IdbGetAllPosts(S) ==
  SortDesc(SelectSeq(S.idb.posts, LAMBDA p : p.dateAdded # NoTime))

(***************************************************************************)
(* One IndexedDB transaction, from its first request to its completion.    *)
(* Transactions run in the order they were created; the continuation of an *)
(* await that a request callback resolves is queued as a microtask.        *)
(***************************************************************************)
RECURSIVE InsertById(_, _)
InsertById(posts, p) ==
  IF posts = <<>> THEN <<p>>
  ELSE IF Head(posts).id < p.id THEN <<Head(posts)>> \o InsertById(Tail(posts), p)
  ELSE <<p>> \o posts

UrlTaken(posts, p) ==
  \E i \in 1..Len(posts) : posts[i].url = p.url /\ posts[i].id # p.id

IdbAdd(S, t, env) ==
  IF IdIndex(S.idb.posts, t.post.id) > 0 \/ UrlIndex(S.idb.posts, t.post.url) > 0
  THEN Settle(S, t.caller, "rejected", "ConstraintError", Null)
  ELSE Settle(QueueForSync(
                [S EXCEPT !.idb.posts = InsertById(@, t.post),
                          !.idb.tags = IdbIncAll(@, @, t.post.tags)],
                t.sync, env, "add", WithUser(t.post, env)),
              t.caller, "resolved", "post", t.post)

IdbGet(S, t) ==
  LET i == IdIndex(S.idb.posts, t.post.id)
      r == IF i = 0 THEN Null ELSE S.idb.posts[i]
  IN  IF t.cont = "getById"
      THEN Settle(S, t.caller, "resolved", IF r = Null THEN "null" ELSE "post", r)
      ELSE [S EXCEPT !.mt = Append(@, [t EXCEPT !.k = t.cont, !.existing = r])]

IdbPut(S, t, env) ==
  LET i == IdIndex(S.idb.posts, t.post.id)
  IN  IF UrlTaken(S.idb.posts, t.post)
      THEN Settle(S, t.caller, "rejected", "ConstraintError", Null)
      ELSE Settle(QueueForSync(
                    [S EXCEPT !.idb.posts = IF i > 0 THEN [@ EXCEPT ![i] = t.post]
                                            ELSE InsertById(@, t.post),
                              !.idb.tags = IdbDecAll(IdbIncAll(@, @, t.add), @, t.rem)],
                    t.sync, env, "update", WithUser(t.post, env)),
                  t.caller, "resolved", "post", t.post)

IdbDelete(S, t, env) ==
  LET i == IdIndex(S.idb.posts, t.post.id)
  IN  Settle(QueueForSync(
               [S EXCEPT !.idb.posts = IF i > 0 THEN RemoveAt(@, i) ELSE @,
                         !.idb.tags = IdbDecAll(@, @, t.rem)],
               t.sync, env, "delete", DeleteData(t.post.id, env)),
             t.caller, "resolved", "true", Null)

IdbGetAll(S, t) ==
  Settle([S EXCEPT !.cyc[0 - t.caller].localPosts = IdbGetAllPosts(S)],
         t.caller, "resolved", "posts", Null)

IdbRun(S, t, env) ==
  CASE t.k = "add" -> IdbAdd(S, t, env)
    [] t.k = "get" -> IdbGet(S, t)
    [] t.k = "put" -> IdbPut(S, t, env)
    [] t.k = "del" -> IdbDelete(S, t, env)
    [] t.k = "getAll" -> IdbGetAll(S, t)
    [] t.k = "setting" ->
         Settle([S EXCEPT !.idb.settings = t.post.id], t.caller,
                "resolved", "true", Null)
    [] t.k = "getTags" -> Settle(S, t.caller, "resolved", "tags", S.idb.tags)
    [] t.k = "query" ->
         Settle(S, t.caller, "resolved", "posts", IdbQuery(S, t.post))
    [] t.k = "getSetting" ->
         Settle(S, t.caller, "resolved", "value",
                SettingOr(S.idb.settings, t.post.id))

(***************************************************************************)
(* syncWithSupabase after the remote select: the merge loop and the push   *)
(* loop, each up to its next await, and the return of the cycle.           *)
(***************************************************************************)
Finish(S, c, failed) ==
  [S EXCEPT !.fin = [S.cyc[c] EXCEPT !.pc = "done", !.failed = @ \/ failed],
            !.cyc[c] = IdleCycle]

PushStepPrunes(S, c, from, env) ==
  LET lps == S.cyc[c].localPosts
      rps == S.cyc[c].remotePosts
      K == {k \in from..Len(lps) : IdIndex(rps, lps[k].id) = 0}
      Fetched(p) == IdIndex(rps, p.id) > 0
  IN  IF K = {} THEN Finish(S, c, FALSE)
      ELSE Finish([S EXCEPT !.ls.posts = SelectSeq(@, Fetched),
                            !.idb.posts = SelectSeq(@, Fetched)], c, FALSE)

PushStep(S, c, from, env) ==
  LET lps == S.cyc[c].localPosts
      rps == S.cyc[c].remotePosts
      K == {k \in from..Len(lps) : IdIndex(rps, lps[k].id) = 0}
  IN  IF K = {} THEN Finish(S, c, FALSE)
      ELSE [S EXCEPT !.cyc[c].pc = "pushWait", !.cyc[c].i = Min(K)]

Newer(rp, lp) == rp.updatedAt > lp.updatedAt

MergeStep(S, c, from, env) ==
  LET lps == S.cyc[c].localPosts
      rps == S.cyc[c].remotePosts
      K == {k \in from..Len(rps) :
              \/ IdIndex(lps, rps[k].id) = 0
              \/ Newer(rps[k], lps[IdIndex(lps, rps[k].id)])}
      k == Min(K)
      S1 == [S EXCEPT !.cyc[c].pc = "mergeWait", !.cyc[c].i = k]
  IN  IF K = {} THEN PushStep(S, c, 1, env)
      ELSE IF IdIndex(lps, rps[k].id) = 0
      THEN ExecAddPost(S1, 0 - c, rps[k], FALSE, env)
      ELSE ExecUpdatePost(S1, 0 - c, rps[k], FALSE, env)

\* getAllPosts() of the cycle in slot c, once the store is ready
ExecGetAllPosts(S, c, env) ==
  IF env.idbMode
  THEN [S EXCEPT !.tx = Append(@, [NoTask EXCEPT !.k = "getAll", !.caller = 0 - c])]
  ELSE Settle([S EXCEPT !.cyc[c].localPosts = LsGetAllPosts(S)],
              0 - c, "resolved", "posts", Null)

\* const localPosts = await this.getAllPosts()
AwaitGetAllPosts(S, c, env) ==
  IF ~env.ready
  THEN [S EXCEPT !.cyc[c].pc = "getAllWait", !.pend = Append(@, 0 - c)]
  ELSE ExecGetAllPosts([S EXCEPT !.cyc[c].pc = "getAllWait"], c, env)

\* the continuation of the cycle in slot c after an awaited store call
CycleResume(S, c, env) ==
  CASE S.cyc[c].pc = "getAllWait" -> MergeStep(S, c, 1, env)
    [] S.cyc[c].pc = "mergeWait" ->
         IF S.cyc[c].ares = "rejected" THEN Finish(S, c, TRUE)
         ELSE MergeStep(S, c, S.cyc[c].i + 1, env)

RunTask(S, t, env) ==
  CASE t.k = "update2" -> UpdatePost2(S, t, env)
    [] t.k = "delete2" -> DeletePost2(S, t, env)
    [] t.k = "cycle" -> CycleResume(S, 0 - t.caller, env)

(***************************************************************************)
(* The remote table: insert / update(...).eq('id') / delete().eq('id') /   *)
(* select('*').eq('user_id'), with id as the key of a row.                 *)
(***************************************************************************)
RemoteInsert(rows, data) ==
  IF IdIndex(rows, data.id) > 0 THEN rows ELSE Append(rows, data)

RemoteUpdate(rows, data) ==
  [i \in 1..Len(rows) |-> IF rows[i].id = data.id THEN data ELSE rows[i]]

RemoteDelete(rows, id) == SelectSeq(rows, LAMBDA r : r.id # id)

RemoteSelect(rows, user) == SelectSeq(rows, LAMBDA r : r.user_id = user)

\* the request the cycle in slot c is awaiting
Request(S, c, env) ==
  CASE S.cyc[c].pc = "drainWait" -> S.cyc[c].cur
    [] S.cyc[c].pc = "selectWait" -> [action |-> "select", data |-> Null]
    [] S.cyc[c].pc = "pushWait" ->
         [action |-> "add",
          data |-> WithUser(S.cyc[c].localPosts[S.cyc[c].i], env)]
    [] OTHER -> NoEntry

Applicable(rows, req) == req.action = "add" => IdIndex(rows, req.data.id) = 0

ApplyRemote(rows, req) ==
  CASE req.action = "add" -> RemoteInsert(rows, req.data)
    [] req.action = "update" -> RemoteUpdate(rows, req.data)
    [] req.action = "delete" -> RemoteDelete(rows, req.data.id)
    [] OTHER -> rows

(***************************************************************************)
(* A call of the application: deferred while the store is not ready,       *)
(* executed up to its first await otherwise.                               *)
(***************************************************************************)
Exec(S, idx, env) ==
  LET c == S.calls[idx]
  IN  CASE c.op = "add" -> ExecAddPost(S, idx, c.post, c.sync, env)
        [] c.op = "update" -> ExecUpdatePost(S, idx, c.post, c.sync, env)
        [] c.op = "delete" -> ExecDeletePost(S, idx, c.post.id, c.sync, env)
        [] c.op = "get" -> ExecGetPostById(S, idx, c.post.id, env)
        [] c.op = "set" -> ExecSetSetting(S, idx, c.post.id, env)
        [] c.op = "getTags" -> ExecGetAllTags(S, idx, env)
        [] c.op = "query" -> ExecQuery(S, idx, c.post, env)
        [] c.op = "getSetting" -> ExecGetSetting(S, idx, c.post.id, env)

Invoke(S, idx, env) ==
  IF ~env.ready THEN [S EXCEPT !.pend = Append(@, idx)] ELSE Exec(S, idx, env)

\* processPendingOperations: shift and call every queued closure
RECURSIVE ProcessPendingOperations(_, _)
ProcessPendingOperations(S, env) ==
  IF S.pend = <<>> THEN S
  ELSE LET op == Head(S.pend)
           S1 == [S EXCEPT !.pend = Tail(@)]
       IN  ProcessPendingOperations(
             IF op > 0 THEN Exec(S1, op, env) ELSE ExecGetAllPosts(S1, 0 - op, env),
             env)

Commit(S) ==
  /\ S.ok
  /\ localStorage' = S.ls
  /\ idb' = S.idb
  /\ syncQueue' = S.q
  /\ microtasks' = S.mt
  /\ idbTxns' = S.tx
  /\ cycles' = S.cyc
  /\ calls' = S.calls
  /\ pendingOperations' = S.pend
  /\ pushed' = S.pushed
  /\ finished' = S.fin
  /\ settled' = S.settled

storeVars == <<isIndexedDBSupported, isInitialized, initPc, supabaseClient,
               currentUser>>

Settled(cs) == \A i \in 1..Len(cs) : cs[i].status # "pending"

CyclesAtRest ==
  \A c \in Slots : cycles[c].pc \in {"idle", "drainWait", "selectWait", "pushWait"}

Quiet == microtasks = <<>> /\ idbTxns = <<>> /\ Settled(calls) /\ CyclesAtRest

\* keep: the call's arguments and result are kept after it has settled
NewCall(op, post, sync, keep) ==
  [op |-> op, post |-> post, sync |-> sync, deferred |-> ~isInitialized,
   status |-> "pending", outer |-> "pending", res |-> "", ret |-> Null,
   keep |-> keep, offline |-> ~isOnline /\ currentUser # NoUser]

AllIdle == \A c \in Slots : cycles[c].pc = "idle"

\* when the application makes its calls
\*   "free":   at any time, several calls in one task included
\*   "serial": it awaits each call before it makes the next one
\*   "alone":  serial, and not while a sync cycle is running
\*   "early":  before the store is ready
\*   "overlap": on a ready store, without awaiting the calls made before
\* ("serial" keeps the latest call only, the other modes keep all calls)
MayCall(mode) ==
  CASE mode = "free" -> microtasks = <<>> \/ userTask
    [] mode = "serial" -> isInitialized /\ Quiet
    [] mode = "alone" -> isInitialized /\ Quiet /\ AllIdle
    [] mode = "early" -> ~isInitialized /\ (microtasks = <<>> \/ userTask)
    [] mode = "overlap" -> isInitialized /\ (microtasks = <<>> \/ userTask)

CallLimit(mode) ==
  CASE mode = "early" -> MaxPending
    [] mode = "overlap" -> MaxOverlap
    [] OTHER -> MaxCalls

UserCall(op, post, sync, serial, keep) ==
  /\ MayCall(serial)
  /\ LET base == IF serial = "serial" THEN <<>> ELSE calls
     IN  /\ Len(base) < CallLimit(serial)
         /\ Commit(Invoke([Cur EXCEPT !.calls = Append(base, NewCall(op, post, sync, keep))],
                          Len(base) + 1, CurEnv))
  /\ userTask' = (serial \in {"free", "early", "overlap"})
  /\ UNCHANGED <<config, session, ui, storeVars, isOnline, remote, clock, otherWrites>>

StoredPosts == IF isIndexedDBSupported THEN idb.posts ELSE localStorage.posts

StoredTags == IF isIndexedDBSupported THEN idb.tags ELSE localStorage.tags

UserAddPost(ids, tagLists, syncs, serial, keep) ==
  \E id \in ids, url \in Urls, tags \in tagLists, sync \in syncs :
    UserCall("add", MkPost(id, url, tags), sync, serial, keep)

\* the edited record is a displayed post with other tags (and another url
\* when changeUrl), or a record whose id is not stored
UserUpdatePost(changeUrl, tagLists, syncs, serial, keep) ==
  \E id \in Ids \cup GenIds, url \in Urls, tags \in tagLists, sync \in syncs :
    LET i == IdIndex(StoredPosts, id)
    IN  /\ i = 0 => id \in Ids
        /\ (i > 0 /\ ~changeUrl) => url = StoredPosts[i].url
        /\ UserCall("update",
                    IF i = 0 THEN MkPost(id, url, tags)
                    ELSE [StoredPosts[i] EXCEPT !.url = url, !.tags = tags],
                    sync, serial, keep)

UserDeletePost(syncs, serial, keep) ==
  \E id \in Ids \cup GenIds, sync \in syncs :
    /\ id \in Ids \/ IdIndex(StoredPosts, id) > 0
    /\ UserCall("delete", [Null EXCEPT !.id = id], sync, serial, keep)

\* addPost of a record that carries a dateAdded of the caller (NoTime: none)
UserAddDated(ids, dates, serial, keep) ==
  \E id \in ids, url \in Urls, date \in dates :
    /\ Len(StoredPosts) < MaxDated
    /\ UserCall("add", [MkPost(id, url, <<>>) EXCEPT !.dateAdded = date],
                TRUE, serial, keep)

\* updatePost of a stored post with a url and a dateAdded of the caller
UserUpdateDated(dates, serial, keep) ==
  \E id \in SeqIds(StoredPosts), url \in Urls, date \in dates :
    UserCall("update",
             [StoredPosts[IdIndex(StoredPosts, id)] EXCEPT !.url = url,
                                                           !.dateAdded = date],
             TRUE, serial, keep)

UserSetSetting(serial, keep) ==
  UserCall("set", [Null EXCEPT !.id = 1], FALSE, serial, keep)

DefaultValue == 2

UserGetAllPosts(optionSets, serial, keep) ==
  \E o \in optionSets : UserCall("query", o, FALSE, serial, keep)

UserGetAllTags(serial, keep) == UserCall("getTags", Null, FALSE, serial, keep)

UserGetSetting(serial, keep) ==
  UserCall("getSetting", [Null EXCEPT !.id = DefaultValue], FALSE, serial, keep)

UserGetPostById(serial, keep) ==
  \E id \in Ids :
    UserCall("get", [Null EXCEPT !.id = id], FALSE, serial, keep)

(***************************************************************************)
(* The event loop: one microtask, one IndexedDB transaction.               *)
(***************************************************************************)
Microtask ==
  /\ microtasks # <<>>
  /\ Commit(RunTask([Cur EXCEPT !.mt = Tail(@)], Head(microtasks), CurEnv))
  /\ userTask' = FALSE
  /\ UNCHANGED <<config, session, ui, storeVars, isOnline, remote, clock, otherWrites>>

IdbTransaction ==
  /\ microtasks = <<>>
  /\ idbTxns # <<>>
  /\ Commit(IdbRun([Cur EXCEPT !.tx = Tail(@)], Head(idbTxns), CurEnv))
  /\ userTask' = FALSE
  /\ UNCHANGED <<config, session, ui, storeVars, isOnline, remote, clock, otherWrites>>

(***************************************************************************)
(* Failures of the backends under a read: the request of a read the        *)
(* application made fires onerror; the text stored under the fallback key  *)
(* is replaced by one that JSON.parse rejects.                             *)
(***************************************************************************)
IsRead(t) ==
  /\ t.caller > 0
  /\ \/ t.k \in {"getTags", "getSetting", "query"}
     \/ t.k = "get" /\ t.cont = "getById"

IdbRequestError ==
  /\ microtasks = <<>>
  /\ idbTxns # <<>>
  /\ IsRead(Head(idbTxns))
  /\ Commit(Settle([Cur EXCEPT !.tx = Tail(@)], Head(idbTxns).caller,
                   "rejected", "RequestError", Null))
  /\ userTask' = FALSE
  /\ UNCHANGED <<config, session, ui, storeVars, isOnline, remote, clock, otherWrites>>

CorruptDocument ==
  /\ microtasks = <<>>
  /\ localStorage.present /\ localStorage.valid
  /\ Commit([Cur EXCEPT !.ls = [EmptyDoc EXCEPT !.valid = FALSE]])
  /\ userTask' = FALSE
  /\ UNCHANGED <<config, session, ui, storeVars, isOnline, remote, clock, otherWrites>>

(***************************************************************************)
(* init() and fallbackToLocalStorage().                                    *)
(***************************************************************************)
FallbackNotReady(n, user, client) ==
  /\ isIndexedDBSupported' = FALSE
  /\ UNCHANGED isInitialized
  /\ initPc' = [initPc EXCEPT ![n] = "done"]
  /\ Commit([Cur EXCEPT !.ls = IF @.present THEN @ ELSE EmptyDoc])

FallbackAlwaysSeeds(n, user, client) ==
  /\ isIndexedDBSupported' = FALSE
  /\ isInitialized' = TRUE
  /\ initPc' = [initPc EXCEPT ![n] = "done"]
  /\ Commit(ProcessPendingOperations(
              [Cur EXCEPT !.ls = EmptyDoc],
              Env(TRUE, FALSE, user, client, isOnline)))

FallbackToLocalStorage(n, user, client) ==
  /\ isIndexedDBSupported' = FALSE
  /\ isInitialized' = TRUE
  /\ initPc' = [initPc EXCEPT ![n] = "done"]
  /\ Commit(ProcessPendingOperations(
              [Cur EXCEPT !.ls = IF @.present THEN @ ELSE EmptyDoc],
              Env(TRUE, FALSE, user, client, isOnline)))

SelectBackend(n, user, client) ==
  IF isIndexedDBSupported
  THEN /\ initPc' = [initPc EXCEPT ![n] = "open"]
       /\ UNCHANGED <<isIndexedDBSupported, isInitialized>>
       /\ Commit(Cur)
  ELSE FallbackToLocalStorage(n, user, client)

\* the application calls init() for the n-th time
CallInit(n) ==
  /\ initPc[n] = "new"
  /\ n > 1 => initPc[n - 1] # "new"
  /\ microtasks = <<>>
  /\ IF isInitialized
     THEN /\ initPc' = [initPc EXCEPT ![n] = "done"]
          /\ UNCHANGED <<isIndexedDBSupported, isInitialized, supabaseClient>>
          /\ Commit(Cur)
     ELSE IF config
     THEN /\ supabaseClient' = TRUE
          /\ initPc' = [initPc EXCEPT ![n] = "getUser"]
          /\ UNCHANGED <<isIndexedDBSupported, isInitialized>>
          /\ Commit(Cur)
     ELSE /\ UNCHANGED supabaseClient
          /\ SelectBackend(n, currentUser, supabaseClient)
  /\ userTask' = FALSE
  /\ UNCHANGED <<config, session, ui, currentUser, isOnline, remote, clock,
                 otherWrites>>

InitGetUser(n) ==
  /\ initPc[n] = "getUser"
  /\ microtasks = <<>>
  /\ currentUser' = session
  /\ SelectBackend(n, session, supabaseClient)
  /\ userTask' = FALSE
  /\ UNCHANGED <<config, session, ui, supabaseClient, isOnline, remote, clock,
                 otherWrites>>

InitGetUserThrows(n) ==
  /\ initPc[n] = "getUser"
  /\ microtasks = <<>>
  /\ FallbackToLocalStorage(n, currentUser, supabaseClient)
  /\ userTask' = FALSE
  /\ UNCHANGED <<config, session, ui, supabaseClient, currentUser, isOnline, remote, clock,
                 otherWrites>>

IdbOpenSuccess(n) ==
  /\ initPc[n] = "open"
  /\ microtasks = <<>>
  /\ isInitialized' = TRUE
  /\ initPc' = [initPc EXCEPT ![n] = "done"]
  /\ LET env == Env(TRUE, TRUE, currentUser, supabaseClient, isOnline)
         S1 == ProcessPendingOperations(Cur, env)
     IN  Commit(IF isOnline /\ currentUser # NoUser
                THEN SyncStart(S1, env, "init") ELSE S1)
  /\ userTask' = FALSE
  /\ UNCHANGED <<config, session, ui, isIndexedDBSupported, supabaseClient, currentUser,
                 isOnline, remote, clock,
                 otherWrites>>

IdbOpenError(n) ==
  /\ initPc[n] = "open"
  /\ microtasks = <<>>
  /\ FallbackToLocalStorage(n, currentUser, supabaseClient)
  /\ userTask' = FALSE
  /\ UNCHANGED <<config, session, ui, supabaseClient, currentUser, isOnline, remote, clock,
                 otherWrites>>

(***************************************************************************)
(* handleOnlineStatusChange.                                               *)
(***************************************************************************)
GoOnline ==
  /\ ~isOnline
  /\ microtasks = <<>>
  /\ isOnline' = TRUE
  /\ Commit(IF currentUser # NoUser
            THEN SyncStart(Cur, Env(isInitialized, isIndexedDBSupported,
                                    currentUser, supabaseClient, TRUE), "online")
            ELSE Cur)
  /\ userTask' = FALSE
  /\ UNCHANGED <<config, session, ui, storeVars, remote, clock, otherWrites>>

GoOffline ==
  /\ isOnline
  /\ microtasks = <<>>
  /\ isOnline' = FALSE
  /\ Commit(Cur)
  /\ userTask' = FALSE
  /\ UNCHANGED <<config, session, ui, storeVars, remote, clock, otherWrites>>

(***************************************************************************)
(* The remote answers the request a sync cycle is awaiting: the request    *)
(* succeeds, resolves with an error object, or the awaited call throws.    *)
(***************************************************************************)
RemoteOutcomes == {"ok", "error", "throw"}

AfterResponse(S, c, out, env) ==
  LET pc == S.cyc[c].pc
  IN  IF out = "throw" THEN Finish(S, c, TRUE)
      ELSE IF pc = "drainWait" THEN DrainStep(S, c)
      ELSE IF pc = "pushWait" THEN PushStep(S, c, S.cyc[c].i + 1, env)
      ELSE IF out = "error" THEN Finish(S, c, TRUE)
      ELSE AwaitGetAllPosts(
             [S EXCEPT !.cyc[c].remotePosts = RemoteSelect(remote, env.user)],
             c, env)

RemoteRespond(outcomes) ==
  /\ microtasks = <<>>
  /\ \E c \in Slots, out \in outcomes :
       LET req == Request(Cur, c, CurEnv)
           S1 == [Cur EXCEPT
                    !.cyc[c].failed = @ \/ out # "ok",
                    !.cyc[c].ins = IF req.action = "add"
                                   THEN Append(@, [id |-> req.data.id,
                                                   user_id |-> req.data.user_id,
                                                   pc |-> cycles[c].pc])
                                   ELSE @]
       IN  /\ cycles[c].pc \in {"drainWait", "selectWait", "pushWait"}
           /\ out = "ok" => isOnline /\ Applicable(remote, req)
           /\ remote' = IF out = "ok" THEN ApplyRemote(remote, req) ELSE remote
           /\ Commit(AfterResponse(S1, c, out, CurEnv))
  /\ userTask' = FALSE
  /\ UNCHANGED <<config, session, ui, storeVars, isOnline, clock, otherWrites>>

(***************************************************************************)
(* The environment: time passes; another device of the same user writes    *)
(* to the remote table.                                                    *)
(***************************************************************************)
Tick ==
  /\ clock < MaxClock
  /\ microtasks = <<>>
  /\ clock' = clock + 1
  /\ Commit(Cur)
  /\ userTask' = FALSE
  /\ UNCHANGED <<config, session, ui, storeVars, isOnline, remote, otherWrites>>

OtherDeviceWrite(ids, tagLists) ==
  /\ microtasks = <<>>
  /\ otherWrites < MaxOtherWrites
  /\ otherWrites' = otherWrites + 1
  /\ \E id \in ids \cup SeqIds(remote), tags \in tagLists :
       LET i == IdIndex(remote, id)
           row == [id |-> id, tags |-> tags,
                   url |-> IF i = 0 THEN "u1" ELSE remote[i].url,
                   dateAdded |-> IF i = 0 THEN clock ELSE remote[i].dateAdded,
                   updatedAt |-> clock, user_id |-> TheUser]
       IN  remote' = IF i = 0 THEN Append(remote, row)
                      ELSE [remote EXCEPT ![i] = row]
  /\ Commit(Cur)
  /\ userTask' = FALSE
  /\ UNCHANGED <<config, session, ui, storeVars, isOnline, clock>>

(***************************************************************************)
(* The process restarts: the page is loaded again and the constructor      *)
(* runs.  What the store held in memory is lost, the running transactions  *)
(* and continuations included; the fallback document, the object stores    *)
(* and the remote table stay.                                              *)
(***************************************************************************)
Restart ==
  /\ initPc[1] # "new"
  /\ isIndexedDBSupported' \in BOOLEAN
  /\ isInitialized' = FALSE
  /\ initPc' = [n \in Invocations |-> "new"]
  /\ pendingOperations' = <<>>
  /\ supabaseClient' = FALSE
  /\ currentUser' = NoUser
  /\ syncQueue' = <<>>
  /\ microtasks' = <<>>
  /\ idbTxns' = <<>>
  /\ cycles' = [c \in Slots |-> IdleCycle]
  /\ calls' = <<>>
  /\ pushed' = <<>>
  /\ finished' = IdleCycle
  /\ settled' = <<>>
  /\ userTask' = FALSE
  /\ UNCHANGED <<config, session, ui, isOnline, localStorage, idb, remote, clock,
                 otherWrites>>

(***************************************************************************)
(* BoardieAuth: the user signs in or out with the auth provider.  The      *)
(* listener of BoardieAuth records the session's user in BoardieAuth; the  *)
(* store is not told.                                                      *)
(***************************************************************************)
SignIn ==
  /\ config
  /\ microtasks = <<>>
  /\ session = NoUser
  /\ session' = TheUser
  /\ Commit(Cur)
  /\ userTask' = FALSE
  /\ UNCHANGED <<config, ui, storeVars, isOnline, remote, clock, otherWrites>>

SignOut ==
  /\ config
  /\ microtasks = <<>>
  /\ session # NoUser
  /\ session' = NoUser
  /\ Commit(Cur)
  /\ userTask' = FALSE
  /\ UNCHANGED <<config, ui, storeVars, isOnline, remote, clock, otherWrites>>

(***************************************************************************)
(* The state after the constructor.                                        *)
(***************************************************************************)
Init ==
  /\ config \in BOOLEAN
  /\ ui = NoUi
  /\ session \in (IF config THEN {NoUser, TheUser} ELSE {NoUser})
  /\ isIndexedDBSupported \in BOOLEAN
  /\ isInitialized = FALSE
  /\ initPc = [n \in Invocations |-> "new"]
  /\ pendingOperations = <<>>
  /\ supabaseClient = FALSE
  /\ currentUser = NoUser
  /\ isOnline \in BOOLEAN
  /\ syncQueue = <<>>
  /\ localStorage = NoDoc
  /\ idb = EmptyDoc
  /\ remote = <<>>
  /\ clock = 1
  /\ microtasks = <<>>
  /\ idbTxns = <<>>
  /\ cycles = [c \in 1..MaxCycles |-> IdleCycle]
  /\ calls = <<>>
  /\ pushed = <<>>
  /\ finished = IdleCycle
  /\ settled = <<>>
  /\ otherWrites = 0
  /\ userTask = FALSE

(***************************************************************************)
(* Serial use of a store that has no remote configured: the application    *)
(* awaits every call before it makes the next one.                         *)
(***************************************************************************)
InitSerial == Init /\ ~config

NextSerial ==
  \/ CallInit(1)
  \/ IdbOpenSuccess(1)
  \/ IdbOpenError(1)
  \/ UserAddPost(Ids \cup {NoId}, TagLists, {TRUE}, "serial", FALSE)
  \/ UserUpdatePost(FALSE, TagLists, {TRUE}, "serial", FALSE)
  \/ UserDeletePost({TRUE}, "serial", FALSE)
  \/ UserGetPostById("serial", FALSE)
  \/ Microtask
  \/ IdbTransaction

SpecSerial == InitSerial /\ [][NextSerial]_vars

(***************************************************************************)
(* A store with a remote configured: the application makes its calls       *)
(* between sync cycles, connectivity comes and goes, time passes and       *)
(* another device writes to the remote table.                              *)
(***************************************************************************)
ShortTagLists == {<<>>, <<"a">>}

InitSync == Init /\ config

NextSync ==
  \/ CallInit(1)
  \/ InitGetUser(1)
  \/ InitGetUserThrows(1)
  \/ IdbOpenSuccess(1)
  \/ IdbOpenError(1)
  \/ UserAddPost({NoId}, ShortTagLists, BOOLEAN, "alone", TRUE)
  \/ UserUpdatePost(FALSE, ShortTagLists, BOOLEAN, "alone", TRUE)
  \/ UserDeletePost(BOOLEAN, "alone", TRUE)
  \/ UserSetSetting("alone", TRUE)
  \/ Microtask
  \/ IdbTransaction
  \/ RemoteRespond(RemoteOutcomes)
  \/ GoOnline
  \/ GoOffline
  \/ Tick
  \/ OtherDeviceWrite({1}, ShortTagLists)

SpecSync == InitSync /\ [][NextSync]_vars

(***************************************************************************)
(* Calls made before the store is ready, then init() and the drain of the  *)
(* pending operations, on a store that has no remote configured.           *)
(***************************************************************************)
InitEarly == Init /\ ~config

NextEarly ==
  \/ CallInit(1)
  \/ IdbOpenSuccess(1)
  \/ IdbOpenError(1)
  \/ UserAddPost({1, NoId}, ShortTagLists, {TRUE}, "early", TRUE)
  \/ UserUpdatePost(TRUE, ShortTagLists, {TRUE}, "early", TRUE)
  \/ UserDeletePost({TRUE}, "early", TRUE)
  \/ UserGetPostById("early", TRUE)
  \/ Microtask
  \/ IdbTransaction

SpecEarly == InitEarly /\ [][NextEarly]_vars

(***************************************************************************)
(* Reads of a store that has no remote configured, while the backend may   *)
(* fail under them.                                                        *)
(***************************************************************************)
InitReads == Init /\ ~config

NextReads ==
  \/ CallInit(1)
  \/ IdbOpenSuccess(1)
  \/ IdbOpenError(1)
  \/ UserAddPost({NoId}, ShortTagLists, {TRUE}, "serial", TRUE)
  \/ UserDeletePost({TRUE}, "serial", TRUE)
  \/ UserSetSetting("serial", TRUE)
  \/ UserGetPostById("serial", TRUE)
  \/ UserGetAllTags("serial", TRUE)
  \/ UserGetSetting("serial", TRUE)
  \/ UserGetAllPosts({NoOptions}, "serial", TRUE)
  \/ Microtask
  \/ IdbTransaction
  \/ IdbRequestError
  \/ CorruptDocument

SpecReads == InitReads /\ [][NextReads]_vars

(***************************************************************************)
(* init() called more than once, before and after the store is ready, with *)
(* calls made before the store is ready and a remote that may be           *)
(* configured.                                                             *)
(***************************************************************************)
NextInit ==
  \/ \E n \in Invocations : CallInit(n)
  \/ \E n \in Invocations : InitGetUser(n)
  \/ \E n \in Invocations : InitGetUserThrows(n)
  \/ \E n \in Invocations : IdbOpenSuccess(n)
  \/ \E n \in Invocations : IdbOpenError(n)
  \/ UserAddPost({NoId}, {<<>>}, {TRUE}, "early", TRUE)
  \/ UserGetPostById("early", TRUE)
  \/ Microtask
  \/ IdbTransaction
  \/ RemoteRespond(RemoteOutcomes)

SpecInit == Init /\ [][NextInit]_vars

(***************************************************************************)
(* Serial use of a store that has no remote configured by a caller that    *)
(* supplies ids, urls and dates of its own, while time passes.             *)
(***************************************************************************)
Dates == {NoTime, MaxClock}

InitApi == Init /\ ~config

NextApi ==
  \/ CallInit(1)
  \/ IdbOpenSuccess(1)
  \/ IdbOpenError(1)
  \/ UserAddDated({1, NoId}, Dates, "serial", TRUE)
  \/ UserUpdateDated(Dates, "serial", TRUE)
  \/ UserDeletePost({TRUE}, "serial", TRUE)
  \/ Microtask
  \/ IdbTransaction
  \/ Tick

SpecApi == InitApi /\ [][NextApi]_vars

(***************************************************************************)
(* Serial use of a store whose process restarts.                           *)
(***************************************************************************)
NextRestart ==
  \/ CallInit(1)
  \/ InitGetUser(1)
  \/ InitGetUserThrows(1)
  \/ IdbOpenSuccess(1)
  \/ IdbOpenError(1)
  \/ UserAddPost({NoId}, ShortTagLists, {TRUE}, "serial", FALSE)
  \/ UserDeletePost({TRUE}, "serial", FALSE)
  \/ UserSetSetting("serial", FALSE)
  \/ Microtask
  \/ IdbTransaction
  \/ Restart

SpecRestart == Init /\ [][NextRestart]_vars

(***************************************************************************)
(* getAllPosts(options) on a ready store that holds posts with text        *)
(* fields, under every option set of the bounded sets below.  A url, a     *)
(* title, a description, a tag and a search term are sequences of          *)
(* characters.                                                             *)
(***************************************************************************)
TagA == <<"a">>
TagB == <<"b">>

Post1 ==
  [tags |-> <<TagA>>, id |-> 1, url |-> <<"x", "a">>, dateAdded |-> 2,
   updatedAt |-> 2, user_id |-> NoUser, platform |-> "twitter",
   title |-> <<"B">>]

Post2 ==
  [tags |-> <<TagA, TagB>>, id |-> 2, url |-> <<"x", "b">>, dateAdded |-> 1,
   updatedAt |-> 1, user_id |-> NoUser, platform |-> "youtube"]

Post3 ==
  [tags |-> <<>>, id |-> 3, url |-> <<"x">>, dateAdded |-> 2,
   updatedAt |-> 3, user_id |-> NoUser, platform |-> "twitter",
   description |-> <<"A", "b">>]

QueryPosts == {Post1, Post2, Post3}

\* the stores a sequence of successful addPost calls leaves
PostLists ==
  UNION {{l \in [1..n -> QueryPosts] : \A i, j \in 1..n : l[i] = l[j] => i = j} :
         n \in 0..Cardinality(QueryPosts)}

RECURSIVE TagsOfPosts(_)
TagsOfPosts(posts) ==
  IF posts = <<>> THEN <<>>
  ELSE IncAll(TagsOfPosts(SubSeq(posts, 1, Len(posts) - 1)),
              posts[Len(posts)].tags)

RECURSIVE ById(_)
ById(posts) ==
  IF posts = <<>> THEN <<>>
  ELSE InsertById(ById(Tail(posts)), Head(posts))

DocOf(posts) ==
  [EmptyDoc EXCEPT !.posts = posts, !.tags = TagsOfPosts(posts)]

QueryOptions ==
  [limit : {Absent} \cup 0..MaxPage, offset : {Absent, 1},
   sortBy : {"", "platform"}, sortOrder : {"", "asc"},
   filterTags : {<<>>, <<TagA, TagB>>},
   searchTerm : {<<>>, <<"A">>, <<"x", "B">>}, platform : {"", "twitter"}]

QueryStore ==
  /\ config = FALSE
  /\ session = NoUser
  /\ isIndexedDBSupported \in BOOLEAN
  /\ isInitialized = TRUE
  /\ initPc = [n \in Invocations |-> IF n = 1 THEN "done" ELSE "new"]
  /\ pendingOperations = <<>>
  /\ supabaseClient = FALSE
  /\ currentUser = NoUser
  /\ isOnline = TRUE
  /\ syncQueue = <<>>
  /\ \E posts \in PostLists :
       /\ localStorage = IF isIndexedDBSupported THEN NoDoc ELSE DocOf(posts)
       /\ idb = IF isIndexedDBSupported THEN DocOf(ById(posts)) ELSE EmptyDoc
  /\ remote = <<>>
  /\ clock = MaxClock
  /\ microtasks = <<>>
  /\ idbTxns = <<>>
  /\ cycles = [c \in 1..MaxCycles |-> IdleCycle]
  /\ calls = <<>>
  /\ pushed = <<>>
  /\ finished = IdleCycle
  /\ settled = <<>>
  /\ otherWrites = 0
  /\ userTask = FALSE

InitQuery == QueryStore /\ ui = NoUi

NextQuery ==
  \/ UserGetAllPosts(QueryOptions, "alone", TRUE)
  \/ IdbTransaction

SpecQuery == InitQuery /\ [][NextQuery]_vars

(***************************************************************************)
(* Calls that overlap on a ready store which holds one post tagged "a" and *)
(* has no remote configured.                                               *)
(***************************************************************************)
StoredOne ==
  [tags |-> <<"a">>, id |-> 1, url |-> "u1", dateAdded |-> 1,
   updatedAt |-> 1, user_id |-> NoUser]

InitOverlap ==
  /\ config = FALSE
  /\ ui = NoUi
  /\ session = NoUser
  /\ isIndexedDBSupported \in BOOLEAN
  /\ isInitialized = TRUE
  /\ initPc = [n \in Invocations |-> IF n = 1 THEN "done" ELSE "new"]
  /\ pendingOperations = <<>>
  /\ supabaseClient = FALSE
  /\ currentUser = NoUser
  /\ isOnline = TRUE
  /\ syncQueue = <<>>
  /\ localStorage = IF isIndexedDBSupported THEN NoDoc
                    ELSE [EmptyDoc EXCEPT !.posts = <<StoredOne>>,
                                          !.tags = IncAll(<<>>, StoredOne.tags)]
  /\ idb = IF isIndexedDBSupported
           THEN [EmptyDoc EXCEPT !.posts = <<StoredOne>>,
                                 !.tags = IncAll(<<>>, StoredOne.tags)]
           ELSE EmptyDoc
  /\ remote = <<>>
  /\ clock = 2
  /\ microtasks = <<>>
  /\ idbTxns = <<>>
  /\ cycles = [c \in 1..MaxCycles |-> IdleCycle]
  /\ calls = <<>>
  /\ pushed = <<>>
  /\ finished = IdleCycle
  /\ settled = <<>>
  /\ otherWrites = 0
  /\ userTask = FALSE

NextOverlap ==
  \/ UserUpdatePost(FALSE, TagLists, {FALSE}, "overlap", TRUE)
  \/ UserDeletePost({FALSE}, "overlap", TRUE)
  \/ Microtask
  \/ IdbTransaction

SpecOverlap == InitOverlap /\ [][NextOverlap]_vars

(***************************************************************************)
(* Sync cycles that overlap: a signed-in user on a ready store; a cycle    *)
(* started by a mutation or by the online event runs while an earlier one  *)
(* awaits its remote call.                                                 *)
(***************************************************************************)
InitCycles ==
  /\ config = TRUE
  /\ ui = NoUi
  /\ session = TheUser
  /\ isIndexedDBSupported \in BOOLEAN
  /\ isInitialized = TRUE
  /\ initPc = [n \in Invocations |-> IF n = 1 THEN "done" ELSE "new"]
  /\ pendingOperations = <<>>
  /\ supabaseClient = TRUE
  /\ currentUser = TheUser
  /\ isOnline \in BOOLEAN
  /\ syncQueue = <<>>
  /\ localStorage = IF isIndexedDBSupported THEN NoDoc ELSE EmptyDoc
  /\ idb = EmptyDoc
  /\ remote = <<>>
  /\ clock = 1
  /\ microtasks = <<>>
  /\ idbTxns = <<>>
  /\ cycles = [c \in 1..MaxConcurrent |-> IdleCycle]
  /\ calls = <<>>
  /\ pushed = <<>>
  /\ finished = IdleCycle
  /\ settled = <<>>
  /\ otherWrites = 0
  /\ userTask = FALSE

NextCycles ==
  \/ UserAddPost({NoId}, {<<>>}, {TRUE}, "overlap", FALSE)
  \/ UserDeletePost({TRUE}, "overlap", FALSE)
  \/ Microtask
  \/ IdbTransaction
  \/ GoOnline
  \/ GoOffline
  \/ RemoteRespond({"ok", "error"})

SpecCycles == InitCycles /\ [][NextCycles]_vars

(***************************************************************************)
(* The link form and the tag manager: the tags of a post are typed as a    *)
(* comma-separated string (a sequence of characters here).                 *)
(***************************************************************************)
TagChars == {"a", ",", " "}

TagStrings == UNION {[1..n -> TagChars] : n \in 0..MaxTagString}

\* String.prototype.split(',')
RECURSIVE Split(_)
Split(str) ==
  LET H == {k \in 1..Len(str) : str[k] = ","}
  IN  IF H = {} THEN <<str>>
      ELSE <<SubSeq(str, 1, Min(H) - 1)>>
           \o Split(SubSeq(str, Min(H) + 1, Len(str)))

\* String.prototype.trim()
Trim(str) ==
  LET H == {k \in 1..Len(str) : str[k] # " "}
  IN  IF H = {} THEN <<>>
      ELSE SubSeq(str, Min(H), CHOOSE k \in H : \A h \in H : h <= k)

\* the tag name a sequence of characters spells
RECURSIVE Text(_)
Text(str) == IF str = <<>> THEN "" ELSE str[1] \o Text(Tail(str))

ParseTags(tagString) ==
  IF tagString = <<>> THEN <<>>
  ELSE LET parts == Split(tagString)
           trimmed == [k \in 1..Len(parts) |-> Trim(parts[k])]
           NonEmpty(tag) == Len(tag) > 0
           kept == SelectSeq(trimmed, NonEmpty)
       IN  [k \in 1..Len(kept) |-> Text(kept[k])]

\* linkForm.onsubmit: a new link, or the edit of a displayed post
UserSubmitLink(tagStrings, serial, keep) ==
  \E str \in tagStrings, url \in Urls, i \in 0..Len(StoredPosts) :
    IF i = 0
    THEN UserCall("add", MkPost(NoId, url, ParseTags(str)), TRUE, serial, keep)
    ELSE UserCall("update", [StoredPosts[i] EXCEPT !.tags = ParseTags(str)],
                  TRUE, serial, keep)

\* TagManager.addTagToPost(post, tag) of a displayed post
UserAddTagToPost(tagStrings, serial, keep) ==
  \E str \in tagStrings, i \in 1..Len(StoredPosts) :
    LET trimmedTag == Text(Trim(str))
    IN  /\ Trim(str) # <<>>
        /\ ~Includes(StoredPosts[i].tags, trimmedTag)
        /\ UserCall("update",
                    [StoredPosts[i] EXCEPT !.tags = Append(@, trimmedTag)],
                    TRUE, serial, keep)

\* a ready store without remote that holds one post
InitTags == InitOverlap

NextTags ==
  \/ UserSubmitLink(TagStrings, "alone", FALSE)
  \/ UserAddTagToPost(TagStrings, "alone", FALSE)
  \/ Microtask
  \/ IdbTransaction

SpecTags == InitTags /\ [][NextTags]_vars

(***************************************************************************)
(* The components that list the posts: PostManager and the UIManager that  *)
(* shows the loading indicator from its constructor.  A loadPosts() runs   *)
(* up to its await of getAllPosts and continues when the promise settles.  *)
(***************************************************************************)
Components == {"PostManager", "UIManager"}

\* CONFIG.ui.postsPerPage
postsPerPage == 2

SearchTerms == {<<>>, <<"A">>}

\* the constructor; that of UIManager ends with init(), which calls showLoading()
Constructed(cls) ==
  [NoUi EXCEPT !.cls = cls, !.isLoading = (cls = "UIManager")]

\* the options loadPosts() passes to getAllPosts, as getAllPosts reads them:
\* PostManager names them page, limit, search, tags and sort
LoadOptions(u) ==
  IF u.cls = "PostManager"
  THEN [NoOptions EXCEPT !.limit = postsPerPage]
  ELSE [NoOptions EXCEPT !.limit = postsPerPage,
                         !.offset = u.currentPage * postsPerPage,
                         !.sortBy = "dateAdded", !.sortOrder = "desc",
                         !.searchTerm = u.currentSearchTerm]

\* the promise loadPosts() awaits has settled: its continuation is the next
\* microtask
ResumeDue == ui.awaiting /\ calls # <<>> /\ calls[1].status # "pending"

\* if (this.isLoading || !this.hasMorePosts) return
Blocked(u) == u.isLoading \/ ~u.hasMorePosts

\* loadPosts() up to its await
LoadPostsStart(u) ==
  IF Blocked(u)
  THEN [u EXCEPT !.outcome = IF u.isLoading THEN "blocked" ELSE "done"]
  ELSE [u EXCEPT !.isLoading = TRUE, !.awaiting = TRUE, !.resetSince = FALSE,
                 !.outcome = "issued"]

\* a task of the component that leaves it as u, with what loadPosts() does
\* when the task calls it
UiTask(u, loads) ==
  /\ microtasks = <<>>
  /\ ~ResumeDue
  /\ ui' = IF loads THEN LoadPostsStart(u) ELSE u
  /\ IF loads /\ ~Blocked(u)
     THEN Commit(Invoke([Cur EXCEPT !.calls = <<NewCall("query", LoadOptions(u),
                                                       FALSE, TRUE)>>],
                        1, CurEnv))
     ELSE Commit(Cur)
  /\ userTask' = FALSE
  /\ UNCHANGED <<config, session, storeVars, isOnline, remote, clock, otherWrites>>

\* loadInitialData, loadMorePosts: the application calls loadPosts()
LoadPosts ==
  /\ ui.currentPage < MaxLoads
  /\ UiTask(ui, TRUE)

\* the search input changes, the user refreshes: resetAndReload()
ResetAndReload(terms) ==
  \E term \in terms :
    LET u == [ui EXCEPT !.currentSearchTerm = term, !.currentPage = 0,
                        !.hasMorePosts = TRUE, !.postsContainer = <<>>,
                        !.resetSince = TRUE, !.stale = FALSE, !.fresh = 0]
    IN  IF ui.cls = "UIManager"
        THEN /\ ui.timers < MaxLoads
             /\ UiTask([u EXCEPT !.isLoading = TRUE, !.timers = @ + 1], FALSE)
        ELSE UiTask(u, TRUE)

\* setTimeout(() => this.loadPosts(), 100) of resetAndReload
TimerFires ==
  /\ ui.timers > 0
  /\ UiTask([ui EXCEPT !.timers = @ - 1], TRUE)

\* loadPosts() after its await: the posts are rendered, or the error is
\* caught; finally hideLoading()
LoadPostsResume ==
  /\ microtasks = <<>>
  /\ ResumeDue
  /\ LET posts == calls[1].ret
         done == [ui EXCEPT !.isLoading = FALSE, !.awaiting = FALSE]
     IN  ui' = IF calls[1].status = "resolved"
               THEN [done EXCEPT
                       !.hasMorePosts = (Len(posts) = postsPerPage),
                       !.postsContainer =
                          @ \o [k \in 1..Len(posts) |-> posts[k].id],
                       !.currentPage = @ + 1,
                       !.stale = @ \/ (ui.resetSince /\ posts # <<>>),
                       !.fresh = IF ui.resetSince THEN @ ELSE @ + 1]
               ELSE done
  /\ Commit(Cur)
  /\ userTask' = FALSE
  /\ UNCHANGED <<config, session, storeVars, isOnline, remote, clock, otherWrites>>

InitUi == QueryStore /\ ui \in {Constructed(cls) : cls \in Components}

NextUi ==
  \/ LoadPosts
  \/ ResetAndReload(SearchTerms)
  \/ TimerFires
  \/ LoadPostsResume
  \/ IdbTransaction

SpecUi == InitUi /\ [][NextUi]_vars

(***************************************************************************)
(* The user signs in and out while the application uses the store.         *)
(***************************************************************************)
InitAuth == Init /\ config /\ isOnline

NextAuth ==
  \/ CallInit(1)
  \/ InitGetUser(1)
  \/ IdbOpenSuccess(1)
  \/ SignIn
  \/ SignOut
  \/ UserAddPost({NoId}, {<<>>}, {TRUE}, "alone", TRUE)
  \/ UserDeletePost({TRUE}, "alone", TRUE)
  \/ Microtask
  \/ IdbTransaction
  \/ RemoteRespond({"ok"})

SpecAuth == InitAuth /\ [][NextAuth]_vars

(***************************************************************************)
(* Properties.                                                             *)
(***************************************************************************)
RefCount(posts, name) ==
  Cardinality({j \in 1..Len(posts) : Includes(posts[j].tags, name)})

TagNames == {"a", "b"}

NoOpInProgress == microtasks = <<>> /\ idbTxns = <<>>

\* C1: under serial use with duplicate-free tag lists, whenever no call is
\* in progress every tag record's count is the number of stored posts whose
\* tags contain its name, no record has count 0, and every tag some stored
\* post carries has a record.
C1_TagCountInvariant ==
  NoOpInProgress =>
    /\ \A i \in 1..Len(StoredTags) :
         /\ StoredTags[i].count = RefCount(StoredPosts, StoredTags[i].name)
         /\ StoredTags[i].count # 0
    /\ \A name \in TagNames :
         RefCount(StoredPosts, name) > 0 => TagIndex(StoredTags, name) > 0

\* an update or delete has just removed the last reference to tag "a" while
\* a post tagged "b" stays stored
C1_Witness ==
  /\ NoOpInProgress
  /\ Len(calls) = 1
  /\ calls[1].op \in {"update", "delete"}
  /\ calls[1].res \in {"post", "true"}
  /\ StoredTags = <<[name |-> "b", count |-> 1]>>
  /\ Len(StoredPosts) >= 1

(***************************************************************************)
(* Properties of the mutating calls of a ready store (SpecSync).           *)
(***************************************************************************)
Mutations == {"add", "update", "delete"}

UserSettled == SelectSeq(settled, LAMBDA i : i > 0)

Succeeded(c) ==
  c.op \in Mutations /\ c.status = "resolved" /\ c.res \in {"post", "true"}

PushKeys(q) ==
  [k \in 1..Len(q) |-> [action |-> q[k].action, id |-> q[k].data.id,
                        user_id |-> q[k].data.user_id]]

\* the entries due for the calls that settled in the last step
DuePushes ==
  LET Due(i) == /\ i > 0
                /\ Succeeded(calls[i])
                /\ calls[i].sync /\ isOnline /\ currentUser # NoUser
      F == SelectSeq(settled, Due)
  IN  [k \in 1..Len(F) |-> [action |-> calls[F[k]].op, id |-> calls[F[k]].post.id,
                            user_id |-> currentUser]]

\* C7: a successful addPost/updatePost/deletePost appends exactly one entry
\* {action, data with user_id} to the sync queue if and only if its sync flag
\* is true, the store is online and a user is authenticated; every other
\* step, the writes of reconciliation included, appends nothing.
C7_SyncQueueGrowth == PushKeys(pushed) = DuePushes

C7_Witness ==
  /\ settled = <<1>> /\ Succeeded(calls[1]) /\ calls[1].op = "update"
  /\ Len(pushed) = 1 /\ pushed[1].action = "update"
  /\ pushed[1].data.user_id = TheUser

\* C8: on the fallback backend an addPost whose url equals the url of a
\* stored post fails with the duplicate-URL error and leaves posts, tags,
\* settings and the sync queue as they were.
C8_DuplicateUrlRejected ==
  [][\A i \in 1..Len(calls') :
       ( /\ Includes(UserSettled', i)
         /\ calls'[i].op = "add"
         /\ ~isIndexedDBSupported /\ isInitialized
         /\ UrlIndex(localStorage.posts, calls'[i].post.url) > 0 )
       => /\ calls'[i].status = "rejected"
          /\ calls'[i].res = "DuplicateURL"
          /\ localStorage' = localStorage
          /\ syncQueue' = syncQueue
          /\ pushed' = <<>>]_vars

C8_Witness ==
  /\ settled = <<1>> /\ calls[1].op = "add" /\ calls[1].res = "DuplicateURL"
  /\ ~isIndexedDBSupported
  /\ Len(localStorage.posts) = 1 /\ localStorage.posts[1].url = calls[1].post.url

\* C9: deletePost for an id that has no stored post rejects with the
\* not-found error and leaves posts, tags and the sync queue unchanged.
C9_DeleteMissingRejects ==
  [][\A i \in 1..Len(calls') :
       ( /\ Includes(UserSettled', i)
         /\ calls'[i].op = "delete"
         /\ IdIndex(StoredPosts, calls'[i].post.id) = 0 )
       => /\ calls'[i].status = "rejected"
          /\ calls'[i].res = "NotFound"
          /\ StoredPosts' = StoredPosts /\ StoredTags' = StoredTags
          /\ syncQueue' = syncQueue
          /\ pushed' = <<>>]_vars

\* C10: updatePost for an id that has no stored post rejects with the
\* not-found error and leaves posts, tags and the sync queue unchanged.
C10_UpdateMissingRejects ==
  [][\A i \in 1..Len(calls') :
       ( /\ Includes(UserSettled', i)
         /\ calls'[i].op = "update"
         /\ IdIndex(StoredPosts, calls'[i].post.id) = 0 )
       => /\ calls'[i].status = "rejected"
          /\ calls'[i].res = "NotFound"
          /\ StoredPosts' = StoredPosts /\ StoredTags' = StoredTags
          /\ syncQueue' = syncQueue
          /\ pushed' = <<>>]_vars

C10_Witness ==
  /\ settled = <<1>> /\ calls[1].op = "update" /\ calls[1].res = "NotFound"
  /\ calls[1].sync /\ isOnline /\ currentUser # NoUser
  /\ Len(StoredPosts) = 1

(***************************************************************************)
(* Properties of a sync cycle (SpecSync).  finished is the cycle that      *)
(* returned in the last step, with the remote and local posts it read.     *)
(***************************************************************************)
CycleCompleted == finished.pc = "done" /\ ~finished.failed

\* the inserts the push loop of the finished cycle issued
PushInserts == SelectSeq(finished.ins, LAMBDA e : e.pc = "pushWait")

\* C4: for a local post L and a remote post R with the same id, after a sync
\* cycle completes, if R.updatedAt > L.updatedAt the stored post of that id
\* equals R in every field, updatedAt included; otherwise the stored post is
\* L unchanged and reconciliation issues no remote write for the id.
C4_TimestampWinsPull ==
  CycleCompleted =>
    \A k \in 1..Len(finished.remotePosts) :
      LET R == finished.remotePosts[k]
          j == IdIndex(finished.localPosts, R.id)
          L == finished.localPosts[j]
          n == IdIndex(StoredPosts, R.id)
      IN  j > 0 =>
            /\ n > 0
            /\ IF R.updatedAt > L.updatedAt
               THEN StoredPosts[n] = R
               ELSE /\ StoredPosts[n] = L
                    /\ \A e \in 1..Len(PushInserts) : PushInserts[e].id # R.id

\* C5: after a sync cycle that completes without a failure, every post that
\* was in the local store and had no counterpart by id in the fetched remote
\* set has been inserted remotely with user_id the current user's id, once,
\* and no post that had a remote counterpart is inserted by reconciliation.
C5_PushOnlyReconciliation ==
  CycleCompleted =>
    /\ \A k \in 1..Len(finished.localPosts) :
         LET L == finished.localPosts[k]
             E == {e \in 1..Len(PushInserts) : PushInserts[e].id = L.id}
             r == IdIndex(remote, L.id)
         IN  IdIndex(finished.remotePosts, L.id) = 0 =>
               /\ Cardinality(E) = 1
               /\ \A e \in E : PushInserts[e].user_id = currentUser
               /\ r > 0 /\ remote[r].user_id = currentUser
    /\ \A e \in 1..Len(PushInserts) :
         /\ IdIndex(finished.remotePosts, PushInserts[e].id) = 0
         /\ IdIndex(finished.localPosts, PushInserts[e].id) > 0

C5_Witness ==
  /\ CycleCompleted /\ finished.trigger = "online"
  /\ Len(PushInserts) = 1 /\ Len(finished.localPosts) = 2
  /\ Len(finished.remotePosts) = 1

\* the remote table and the local store show the effect of mutation i
Reflected(i) ==
  LET c == calls[i]
      r == IdIndex(remote, c.post.id)
      n == IdIndex(StoredPosts, c.post.id)
  IN  CASE c.op = "add" -> r > 0 /\ n > 0
        [] c.op = "update" ->
             /\ r > 0 /\ remote[r].tags = c.post.tags /\ remote[r].url = c.post.url
             /\ n > 0 /\ StoredPosts[n].tags = c.post.tags
        [] c.op = "delete" -> r = 0 /\ n = 0
        [] OTHER -> TRUE

\* C6: a mutation an authenticated user made while offline is, once the
\* device is online again and the sync cycle that reconnecting triggered has
\* completed without failure, reflected by the remote table (added post
\* present, updated post with the new content, deleted post absent) and
\* still reflected by the local store.
C6_OfflineChangesSynced ==
  ( /\ CycleCompleted /\ finished.trigger = "online"
    /\ calls # <<>> /\ finished.base = Len(calls) )
  => LET i == Len(calls)
     IN  (calls[i].offline /\ Succeeded(calls[i])) => Reflected(i)

(***************************************************************************)
(* Properties of the calls made before the store is ready (SpecEarly).     *)
(***************************************************************************)
Drained ==
  /\ isInitialized /\ pendingOperations = <<>>
  /\ microtasks = <<>> /\ idbTxns = <<>>

\* C3: every call made before the store is ready returns a promise that has
\* settled once init() has completed and the queued work has run, with the
\* outcome the call itself had: a deferred addPost or updatePost that fails
\* does not leave its caller pending.
C3_PreReadyCallsSettle ==
  Drained =>
    \A i \in 1..Len(calls) :
      calls[i].deferred =>
        /\ calls[i].outer # "pending"
        /\ calls[i].outer = calls[i].status

\* the same store running every task of a call before the next call is made
RECURSIVE RunToQuiet(_, _)
RunToQuiet(S, env) ==
  IF S.mt # <<>>
  THEN RunToQuiet(RunTask([S EXCEPT !.mt = Tail(@)], Head(S.mt), env), env)
  ELSE IF S.tx # <<>>
  THEN RunToQuiet(IdbRun([S EXCEPT !.tx = Tail(@)], Head(S.tx), env), env)
  ELSE S

RECURSIVE OneAfterAnother(_, _, _)
OneAfterAnother(S, i, env) ==
  IF i > Len(S.calls) THEN S
  ELSE OneAfterAnother(RunToQuiet(Exec(S, i, env), env), i + 1, env)

\* the calls made so far, executed in call order on a ready, empty store
Sequential ==
  LET fresh == [i \in 1..Len(calls) |->
                  [calls[i] EXCEPT !.status = "pending", !.outer = "pending",
                                   !.res = "", !.ret = Null]]
  IN  OneAfterAnother([Cur EXCEPT !.ls = EmptyDoc, !.idb = EmptyDoc,
                                  !.calls = fresh],
                      1, CurEnv)

\* C2: once init() has finished and the queued operations have run, the
\* posts and tags and the outcome of every call equal those of executing
\* the same calls one after another in call order on a ready store.
C2_PreReadyOrdering ==
  (Drained /\ Settled(calls) /\ \A i \in 1..Len(calls) : calls[i].deferred) =>
    LET R == Sequential
        doc == IF isIndexedDBSupported THEN R.idb ELSE R.ls
    IN  /\ StoredPosts = doc.posts
        /\ StoredTags = doc.tags
        /\ \A i \in 1..Len(calls) :
             /\ calls[i].status = R.calls[i].status
             /\ calls[i].res = R.calls[i].res

(***************************************************************************)
(* Properties of the reads (SpecReads).                                    *)
(***************************************************************************)
ReadOps == {"get", "query", "getTags", "getSetting"}

\* what a read resolves with when the backend fails under it
DefaultResult(c) ==
  CASE c.op = "get" -> Null
    [] c.op = "getSetting" -> c.post.id
    [] OTHER -> <<>>

\* C11: getAllPosts, getPostById, getAllTags and getSetting always resolve,
\* in both backends, and when the backend read fails they resolve with the
\* empty or default result instead of rejecting.
C11_ReadsNeverFail ==
  [][\A i \in 1..Len(calls') :
       (Includes(UserSettled', i) /\ calls'[i].op \in ReadOps)
       => /\ calls'[i].status = "resolved"
          /\ (~isIndexedDBSupported /\ ~localStorage.valid)
               => calls'[i].ret = DefaultResult(calls'[i])]_vars

(***************************************************************************)
(* init().                                                                 *)
(***************************************************************************)
\* the call has been started: its promise has settled, or a transaction or a
\* continuation of it is under way
Started(i) ==
  \/ calls[i].status # "pending"
  \/ \E k \in 1..Len(idbTxns) : idbTxns[k].caller = i
  \/ \E k \in 1..Len(microtasks) : microtasks[k].caller = i

C13_InitIdempotent ==
  [][(isInitialized /\ initPc' # initPc)
     => /\ isIndexedDBSupported' = isIndexedDBSupported
        /\ StoredPosts' = StoredPosts
        /\ StoredTags' = StoredTags
        /\ calls' = calls
        /\ idbTxns' = idbTxns
        /\ syncQueue' = syncQueue
        /\ cycles' = cycles]_vars

(***************************************************************************)
(* The mutating calls and the remote (SpecSync).                           *)
(***************************************************************************)
\* the store as the running handler would see it with no connection
Offline == [CurEnv EXCEPT !.online = FALSE]

\* the local handler that may settle call i in this step (the call itself,
\* the continuation at the head of the microtask queue, the transaction at
\* the head of the transaction queue), run with no connection
LocalHandler(i, grown, made) ==
  IF grown
  THEN Invoke([Cur EXCEPT !.calls = Append(calls, made)], i, Offline)
  ELSE IF microtasks # <<>>
  THEN RunTask([Cur EXCEPT !.mt = Tail(@)], Head(microtasks), Offline)
  ELSE IF idbTxns # <<>>
  THEN IdbRun([Cur EXCEPT !.tx = Tail(@)], Head(idbTxns), Offline)
  ELSE Cur

\* C14: the step in which addPost, updatePost or deletePost settles is a
\* step of the store's own local work, and the caller's outcome and the
\* local posts and tags after it are those the same step yields with no
\* connection at all: the remote is not written and no response of the
\* remote is consumed in it, whether the remote is about to succeed, to
\* fail or never to answer.
C14_SyncInvisibleToCaller ==
  [][\A i \in 1..Len(calls') :
       (Includes(UserSettled', i) /\ calls'[i].op \in Mutations)
       => LET made == [calls'[i] EXCEPT !.status = "pending",
                                        !.outer = "pending",
                                        !.res = "", !.ret = Null]
              L == LocalHandler(i, Len(calls') > Len(calls), made)
          IN  /\ remote' = remote
              /\ L.calls[i].status = calls'[i].status
              /\ L.calls[i].res = calls'[i].res
              /\ L.calls[i].ret = calls'[i].ret
              /\ L.ls = localStorage'
              /\ L.idb = idb']_vars

\* a mutation settled with its post queued while a remote request of the
\* sync cycle it started is still unanswered
C14_Witness ==
  /\ settled = <<1>> /\ Succeeded(calls[1])
  /\ Len(pushed) = 1
  /\ \E c \in Slots : cycles[c].pc = "drainWait" /\ cycles[c].trigger = "mutation"

(***************************************************************************)
(* Properties of the stored posts under a caller that supplies ids, urls   *)
(* and dates (SpecApi).                                                    *)
(***************************************************************************)
\* what getPostById(id) resolves with in the current state: the first post
\* of that id in the fallback document, the record under the key otherwise
StoredPost(id) ==
  LET i == IdIndex(StoredPosts, id)
  IN  IF i = 0 THEN Null ELSE StoredPosts[i]

\* C15: when addPost(p) has just succeeded, getPostById(p.id) yields a post
\* whose url and tags are those of p, whose id, dateAdded and updatedAt are
\* populated, and whose updatedAt is not before its dateAdded.
C15_AddGetRoundTrip ==
  \A i \in 1..Len(calls) :
    (Includes(UserSettled, i) /\ calls[i].op = "add" /\ Succeeded(calls[i]))
    => LET p == calls[i].post
           g == StoredPost(calls[i].ret.id)
       IN  /\ g # Null
           /\ g.url = p.url /\ g.tags = p.tags
           /\ g.id # NoId /\ g.dateAdded # NoTime /\ g.updatedAt # NoTime
           /\ g.updatedAt >= g.dateAdded

\* C16: a successful updatePost leaves the dateAdded stored for the id as
\* it was, whatever dateAdded the supplied record carries or omits.
C16_DateAddedImmutable ==
  [][\A i \in 1..Len(calls') :
       ( /\ Includes(UserSettled', i)
         /\ calls'[i].op = "update"
         /\ Succeeded(calls'[i]) )
       => LET id == calls'[i].post.id
          IN  /\ IdIndex(StoredPosts, id) > 0
              /\ IdIndex(StoredPosts', id) > 0
              /\ StoredPosts'[IdIndex(StoredPosts', id)].dateAdded
                   = StoredPosts[IdIndex(StoredPosts, id)].dateAdded]_vars

\* C17: no two stored posts share an id.
C17_PostIdsUnique ==
  \A i, j \in 1..Len(StoredPosts) :
    StoredPosts[i].id = StoredPosts[j].id => i = j

\* C18: on the fallback backend no two stored posts have the same url.
C18_FallbackUrlsUnique ==
  ~isIndexedDBSupported =>
    \A i, j \in 1..Len(localStorage.posts) :
      localStorage.posts[i].url = localStorage.posts[j].url => i = j

(***************************************************************************)
(* Restarts (SpecRestart).                                                 *)
(***************************************************************************)
Restarted == initPc[1] # "new" /\ initPc'[1] = "new"

\* C19: a restart empties the sync queue and the pending-operation queue
\* and leaves the fallback document as it is; no step from there up to and
\* including the one in which init() makes the store ready changes the
\* document, except that the default empty document is written when none
\* exists; so a store that is ready again on the fallback backend serves
\* exactly the posts, tag aggregates and settings stored before the restart.
C19_RestartPersistence ==
  [][/\ Restarted => syncQueue' = <<>> /\ pendingOperations' = <<>>
     /\ (~isInitialized \/ ~isInitialized')
          => /\ IF localStorage.present
                THEN localStorage' = localStorage
                ELSE localStorage' \in {NoDoc, EmptyDoc}
             /\ (isInitialized' /\ ~isIndexedDBSupported')
                  => /\ localStorage'.present
                     /\ StoredPosts' = localStorage.posts
                     /\ StoredTags' = localStorage.tags]_vars

\* after a restart the store is ready again on the fallback backend, with
\* the two posts, the tag and the setting stored before the restart
C19_Witness ==
  /\ isInitialized /\ ~isIndexedDBSupported /\ calls = <<>>
  /\ Len(localStorage.posts) = 2
  /\ localStorage.tags # <<>>
  /\ localStorage.settings = 1

(***************************************************************************)
(* getAllPosts(options) against the pipeline the specification describes   *)
(* (SpecQuery).                                                            *)
(***************************************************************************)
\* term occurs in text, letter case ignored
RefContains(text, term) ==
  \E k \in 0..(Len(text) - Len(term)) :
    \A n \in 1..Len(term) : LowerChar(text[k + n]) = LowerChar(term[n])

RefMatches(p, o) ==
  /\ o.platform # "" => p.platform = o.platform
  /\ \A k \in 1..Len(o.filterTags) : Includes(p.tags, o.filterTags[k])
  /\ o.searchTerm # <<>> =>
       \/ RefContains(p.url, o.searchTerm)
       \/ "title" \in DOMAIN p /\ RefContains(p.title, o.searchTerm)
       \/ "description" \in DOMAIN p /\ RefContains(p.description, o.searchTerm)
       \/ \E k \in 1..Len(p.tags) : RefContains(p.tags[k], o.searchTerm)

RefKey(p, o) ==
  IF o.sortBy = "platform" THEN PlatformRank[p.platform] ELSE p.dateAdded

\* a precedes b in the requested direction (descending unless 'asc')
RefBefore(a, b, o) ==
  IF o.sortOrder = "asc" THEN RefKey(a, o) < RefKey(b, o)
  ELSE RefKey(a, o) > RefKey(b, o)

\* the posts of seq by sort key and direction, posts of equal key in the
\* order of seq
RefSort(seq, o) ==
  LET Pos(i) == 1 + Cardinality({j \in 1..Len(seq) :
                                  \/ RefBefore(seq[j], seq[i], o)
                                  \/ /\ RefKey(seq[j], o) = RefKey(seq[i], o)
                                     /\ j < i})
  IN  [n \in 1..Len(seq) |-> seq[CHOOSE i \in 1..Len(seq) : Pos(i) = n]]

\* the slice [offset, offset + limit), to the end when no limit is given
RefSlice(seq, o) ==
  LET from == IF o.offset = Absent THEN 0 ELSE o.offset
      to == IF o.limit = Absent THEN Len(seq) ELSE from + o.limit
  IN  [n \in 1..(IF to > Len(seq) THEN Len(seq) - from ELSE to - from)
         |-> seq[from + n]]

RefPipeline(posts, o) ==
  RefSlice(RefSort(SelectSeq(posts, LAMBDA p : RefMatches(p, o)), o), o)

\* what getAllPosts(o) resolves with on the store as it is
Query(o) == IF isIndexedDBSupported THEN IdbQuery(Cur, o) ELSE LsQuery(Cur, o)

Page(o, offset, limit) == Query([o EXCEPT !.offset = offset, !.limit = limit])

\* C20: getAllPosts(options) resolves with the posts the reference pipeline
\* yields for the stored posts (filter by platform, by all filterTags and by
\* searchTerm, sort by key and direction, slice [offset, offset+limit)), and
\* for every filter, sort and n the pages (0, n) and (n, n) concatenated are
\* the result for limit 2n.
C20_QueryEqualsPipeline ==
  /\ \A i \in 1..Len(calls) :
       (Includes(UserSettled, i) /\ calls[i].op = "query")
       => /\ calls[i].status = "resolved"
          /\ calls[i].ret = RefPipeline(StoredPosts, calls[i].post)
  /\ \A i \in 1..Len(calls), n \in 0..MaxPage :
       (Includes(UserSettled, i) /\ calls[i].op = "query")
       => Page(calls[i].post, 0, n) \o Page(calls[i].post, n, n)
            = Page(calls[i].post, Absent, 2 * n)

(***************************************************************************)
(* Overlapping calls (SpecOverlap).                                        *)
(***************************************************************************)
\* C21: once two mutations of the same post that were both issued before
\* either had completed have both completed, every tag record's count is
\* the number of stored posts whose tags contain its name, no record has
\* count 0 and every tag a stored post carries has a record.
C21_OverlapTagCounts ==
  ( /\ Len(calls) = 2 /\ Settled(calls) /\ NoOpInProgress
    /\ calls[1].post.id = calls[2].post.id )
  => /\ \A i \in 1..Len(StoredTags) :
          /\ StoredTags[i].count = RefCount(StoredPosts, StoredTags[i].name)
          /\ StoredTags[i].count # 0
     /\ \A name \in TagNames :
          RefCount(StoredPosts, name) > 0 => TagIndex(StoredTags, name) > 0

(***************************************************************************)
(* Properties of the drain of the sync queue (SpecSync).                   *)
(***************************************************************************)
\* the remote operation of the queue entry the cycle in slot c was awaiting
\* has failed in this step, the first failure of that cycle
DrainFailed(c) ==
  /\ cycles[c].pc = "drainWait" /\ ~cycles[c].failed
  /\ \/ cycles'[c].failed
     \/ cycles'[c].pc = "idle" /\ finished'.pc = "done" /\ finished'.failed

\* C22: when the remote operation of a queue entry fails during the drain,
\* the cycle returns in that step: it issues no further request, writes
\* neither the local store nor the remote table, and leaves the sync queue
\* as it is (the failed entry is not put back, the entries behind it stay
\* in their order).
C22_FailureAbortsCycle ==
  [][\A c \in Slots :
       DrainFailed(c)
       => /\ cycles'[c].pc = "idle"
          /\ finished'.pc = "done"
          /\ syncQueue' = syncQueue
          /\ remote' = remote
          /\ StoredPosts' = StoredPosts
          /\ StoredTags' = StoredTags]_vars
\* the queue as the handler of this step finds it, with what it appends
Appended == syncQueue \o pushed'

\* the slots whose cycle holds, after this step, an entry it did not hold
Issuing == {c \in Slots : /\ cycles'[c].pc = "drainWait"
                          /\ cycles[c].pc = "idle" \/ cycles'[c].cur # cycles[c].cur}

\* C23: queued mutations leave the queue from its head, one per remote call, in
\* the order they were appended, whichever of the overlapping cycles issues
\* them; a cycle issues its fetch only when the queue is empty
C23_FifoDrain ==
  [][LET k == Len(Appended) - Len(syncQueue')
     IN  /\ k \in {0, 1}
         /\ syncQueue' = SubSeq(Appended, k + 1, Len(Appended))
         /\ Cardinality(Issuing) = k
         /\ \A c \in Issuing : cycles'[c].cur = Head(Appended)
         /\ \A c \in Slots :
              (cycles'[c].pc = "selectWait" /\ cycles[c].pc # "selectWait")
              => syncQueue' = <<>>]_vars

C23_Witness ==
  /\ cycles[1].pc = "drainWait"
  /\ cycles[2].pc = "drainWait"
  /\ cycles[1].cur # cycles[2].cur

InsertsInFlight(id) ==
  {c \in Slots : /\ Request(Cur, c, CurEnv).action = "add"
                 /\ Request(Cur, c, CurEnv).data.id = id}

\* C24: no post has two remote inserts: an insert a cycle has issued is the
\* only one in flight for its post, and the post is not in the remote table yet
C24_NoDuplicateInsert ==
  \A id \in GenIds :
    /\ Cardinality(InsertsInFlight(id)) <= 1
    /\ InsertsInFlight(id) # {} => IdIndex(remote, id) = 0
\* the slots whose cycle awaits, after this step, a remote call it has issued
\* in this step
Sending ==
  {c \in Slots : /\ cycles'[c].pc \in {"drainWait", "selectWait", "pushWait"}
                 /\ \/ cycles'[c].pc # cycles[c].pc
                    \/ cycles'[c].cur # cycles[c].cur
                    \/ cycles'[c].i # cycles[c].i}

\* a mutation of the application has succeeded in this step
Mutated ==
  /\ Len(calls') = 1
  /\ calls'[1].op \in Mutations
  /\ calls'[1].sync
  /\ calls'[1].status = "resolved"
  /\ calls = <<>> \/ calls[1].status = "pending"

\* C25: an entry is queued and a remote call is issued only while a user is
\* signed in with the provider, and under that user's id; a mutation that
\* succeeds online while a user is signed in is queued
C25_SyncRequiresIdentity ==
  [][/\ pushed' # <<>> => session # NoUser
     /\ \A i \in 1..Len(pushed') : pushed'[i].data.user_id = session
     /\ Sending # {} => session # NoUser
     /\ (Mutated /\ isOnline /\ session # NoUser) => pushed' # <<>>]_vars
\* the cycle in slot c reconciles (it has fetched the remote posts) and takes
\* a step
Reconciles(c) ==
  /\ cycles[c].pc \in {"getAllWait", "mergeWait", "pushWait"}
  /\ cycles'[c] # cycles[c]

C27_NoDuplicateTags ==
  \A i \in 1..Len(StoredPosts) :
    \A j, k \in 1..Len(StoredPosts[i].tags) :
      StoredPosts[i].tags[j] = StoredPosts[i].tags[k] => j = k
\* C28: after a resetAndReload() that ran while a loadPosts() was awaiting the
\* store, the container never holds posts of a query issued before the reset,
\* and once no load is in flight currentPage is the number of queries issued
\* after the reset
C28_ReloadDuringLoad ==
  ui.cls = "PostManager"
  => /\ ~ui.stale
     /\ ~ui.awaiting => ui.currentPage = ui.fresh

\* C29: in the UIManager a loadPosts() is stopped by the isLoading guard only
\* while another load is in flight, which will clear the flag
C29_LoadingProgress ==
  (ui.cls = "UIManager" /\ ui.outcome = "blocked") => ui.awaiting

\* the posts of the store that match the search term of the component, newest
\* first
Listed ==
  RefPipeline(StoredPosts,
              [NoOptions EXCEPT !.searchTerm = ui.currentSearchTerm])

\* C30: after k loads the PostManager has rendered the first k * postsPerPage
\* listed posts, each once, and hasMorePosts is false once a load has come
\* back short
C30_ConsecutivePages ==
  (ui.cls = "PostManager" /\ ~ui.awaiting /\ ~ui.stale
   /\ ui.currentPage = ui.fresh)
  => LET n == Min({ui.currentPage * postsPerPage, Len(Listed)})
     IN  /\ ui.postsContainer = [k \in 1..n |-> Listed[k].id]
         /\ (ui.currentPage > 0 /\ Len(Listed) < ui.currentPage * postsPerPage)
            => ~ui.hasMorePosts
====
